---- MODULE Spec2Model ----
(***************************************************************************)
(* Message-thread subsystem of CheckIn-Backend:                            *)
(*   src/src/controllers/messages.controller.js  (HTTP handlers)           *)
(*   src/src/models/MessageThread.model.js       (thread documents)        *)
(*   src/src/models/Message.model.js             (message documents)       *)
(* Every `await` on the store is one atomic step; the synchronous code     *)
(* between two awaits belongs to the step of the await that follows it     *)
(* (the code after the last await belongs to the last step).               *)
(***************************************************************************)
EXTENDS Integers, Sequences, FiniteSets, TLC

(* ------------------------------ bounds -------------------------------- *)
\* concurrent requests in flight
MaxProcs == 2
\* requests accepted over a behaviour
MaxRequests == 2

(* --------------------------- values, users ---------------------------- *)
NULL == "null"

Students == {"s1"}
Counselors == {"c1", "c2"}
Users == Students \cup Counselors
\* accounts with role "Admin"; they take part in the read operations only
Admins == {"a1"}

\* User.role as stored ("Student" is the schema default)
Role(u) ==
  IF u \in Counselors THEN "Counselor"
  ELSE IF u \in Admins THEN "Admin"
  ELSE "Student"

roleLower(u) ==
  CASE Role(u) = "Counselor" -> "counselor"
    [] Role(u) = "Admin"     -> "admin"
    [] OTHER                 -> "student"

isCounselor(u) == roleLower(u) = "counselor"

senderRoleLabel(u) ==
  IF roleLower(u) = "counselor" THEN "Counselor"
  ELSE IF roleLower(u) = "admin" THEN "Admin"
  ELSE "Student"

(* ------------------------------- text --------------------------------- *)
(* A string is a sequence of runs [c, n]: n >= 1 characters of class c,    *)
(*   "ch"  a printable, non-blank character                                *)
(*   "sp"  a blank that is not a control character (U+0020, U+00A0, ...)   *)
(*   "ctl" a control character U+0000..U+001F or U+007F                    *)
(* Adjacent runs have different classes.                                   *)
TextLimit == 2000

Run(c, n) == [c |-> c, n |-> n]

RECURSIVE TextLen(_)
TextLen(t) == IF t = <<>> THEN 0 ELSE Head(t).n + TextLen(Tail(t))

\* append a run, merging it into the last run when the classes agree
AddRun(t, r) ==
  IF t # <<>> /\ t[Len(t)].c = r.c
  THEN [t EXCEPT ![Len(t)] = Run(r.c, t[Len(t)].n + r.n)]
  ELSE Append(t, r)

\* .replace(/[\u0000-\u001F\u007F]/g, "")
RECURSIVE StripControl(_)
StripControl(t) ==
  IF t = <<>> THEN <<>>
  ELSE LET rest == StripControl(SubSeq(t, 1, Len(t) - 1))
           r    == t[Len(t)]
       IN IF r.c = "ctl" THEN rest ELSE AddRun(rest, r)

\* String.prototype.trim
Trim(t) ==
  LET a == IF t # <<>> /\ Head(t).c = "sp" THEN Tail(t) ELSE t
  IN IF a # <<>> /\ a[Len(a)].c = "sp" THEN SubSeq(a, 1, Len(a) - 1) ELSE a

\* .slice(0, k)
RECURSIVE Slice(_, _)
Slice(t, k) ==
  IF t = <<>> \/ k <= 0 THEN <<>>
  ELSE IF Head(t).n >= k THEN << Run(Head(t).c, k) >>
  ELSE << Head(t) >> \o Slice(Tail(t), k - Head(t).n)

\* cleanText without its .slice(0, 2000)
cleanTextNoSlice(v) == Trim(StripControl(v))

cleanText(v) == Slice(Trim(StripControl(v)), TextLimit)

\* Message.text: { trim: true, maxlength: 2000, required: true }
SchemaText(t) == Trim(t)
SchemaTextValid(t) == t # <<>> /\ TextLen(t) <= TextLimit

\* "hi"
TextHi == << Run("ch", 2) >>

(* ------------------------------ state --------------------------------- *)
VARIABLES
  threads,    \* MessageThread collection: thread _id = position
  messages,   \* Message collection in insertion order: message _id = position
  procs,      \* the requests in flight, one per slot
  nreq,       \* requests accepted so far
  ioInstance, \* socket.js line 8: the socket server, NoServer while null
  socks       \* the realtime connection of each user

vars == << threads, messages, procs, nreq, ioInstance, socks >>

\* the realtime state, which no HTTP handler writes
rt == << ioInstance, socks >>

Procs == 1..MaxProcs

\* a Date field that is null
NoDate == 0
\* a well-formed ObjectId that names no stored document
UnknownId == 0
\* a string that is not an ObjectId (asId returns null)
InvalidId == -1

\* JSON values of req.body.anonymous; an absent field is NULL
JTrue == "true"
JFalse == "false"
\* !!v
Truthy(v) == v = JTrue
\* typeof v === "boolean"
IsBoolean(v) == v \in {JTrue, JFalse}

NoBody == [text |-> <<>>, clientId |-> NULL, senderMode |-> "", anonymous |-> NULL]

\* the handler's `thread` before findById has returned a document
NoThread ==
  [studentId |-> NULL, counselorId |-> NULL, status |-> NULL,
   anonymous |-> FALSE, identityMode |-> NULL, identityLocked |-> FALSE,
   participants |-> {}]

\* no thread in the response body
NoItem == [studentId |-> NULL, counselorId |-> NULL, anonymous |-> FALSE]

\* socket.js line 8: let ioInstance = null
NoServer == [id |-> 0, use |-> 0, connection |-> 0]

\* socket.js lines 52-126: new Server(...), one use(authSocket) and one
\* on("connection", ...); the new object is distinct from the one before it
NewServer(io) == [id |-> io.id + 1, use |-> 1, connection |-> 1]

\* initSocket without its first line: every call builds a server
initSocketAlwaysCreating(io) == NewServer(io)

\* socket.js lines 48-129: the value of ioInstance after the call, which is also the
\* value the call returns
initSocket(io) == IF io # NoServer THEN io ELSE NewServer(io)

\* socket.js lines 131-134: throws while ioInstance is null, returns it otherwise
getIO(io) ==
  IF io = NoServer THEN [threw |-> TRUE, io |-> NoServer]
  ELSE [threw |-> FALSE, io |-> io]

\* a slot with no request
Idle ==
  [pc |-> "idle", op |-> "none", user |-> NULL, tid |-> UnknownId,
   body |-> NoBody, text |-> <<>>, thread |-> NoThread, claimedNow |-> FALSE,
   lockedNow |-> FALSE, dup |-> FALSE, msgDoc |-> 0, status |-> 0, ret |-> 0,
   item |-> NoItem, found |-> {}, list |-> {}, pub |-> <<>>, entries |-> {},
   io |-> NoServer, threw |-> FALSE]

\* a slot is free before its first request and after a response was sent
\* (the record of the finished request stays until the slot is taken again)
Free(p) == procs[p].pc \in {"idle", "done"}

\* the slot a new request takes: the lowest free one
FreeSlot(p) ==
  /\ Free(p)
  /\ \A q \in Procs : q < p => ~Free(q)

Accept(p) == FreeSlot(p) /\ nreq < MaxRequests

\* res.status(code) followed by a throw or by res.json
Finish(r, code) == [r EXCEPT !.pc = "done", !.status = code]

\* new Date(): the clock advances when a request arrives
Now == nreq

(* ------------------------- realtime publication ------------------------ *)
\* the users that hold a realtime connection: the student, and a counselor
\* other than the one who replies
SocketUsers == {"s1", "c2"}

\* the channels: thread:<id>, user:<id>, role:counselor
ThreadRoom(tid) == [kind |-> "thread", tid |-> tid, user |-> NULL]
UserRoom(u) == [kind |-> "user", tid |-> 0, user |-> u]
RoleRoom == [kind |-> "role", tid |-> 0, user |-> NULL]

\* io.to(room).emit(name, payload); message is the _id of the message whose
\* body the payload carries (0: none), counselorId and userId the payload
\* fields of these names (NULL: the payload has no such field)
Event(name, room, threadId, message, counselorId, userId) ==
  [name |-> name, room |-> room, threadId |-> threadId, message |-> message,
   counselorId |-> counselorId, userId |-> userId]

\* a user without a connection; rooms are the thread:<id> channels joined
\* (by thread id), chans the user:<id> and role:counselor channels joined,
\* tok the token of the last handshake
NoSocket == [conn |-> FALSE, rooms |-> {}, chans |-> {}, pc |-> "none", tok |-> ""]

\* the connected users an emit to the room reaches
Receivers(room) ==
  {u \in SocketUsers :
     /\ socks[u].conn
     /\ IF room.kind = "thread" THEN room.tid \in socks[u].rooms
        ELSE room \in socks[u].chans}

\* the publication block without its catch: getIO's throw leaves the handler
PublishedOrThrow(r, code, events) ==
  IF getIO(ioInstance).threw THEN Finish(r, 500)
  ELSE [Finish(r, code) EXCEPT !.pub = events]

\* try { const io = getIO(); ...emit... } catch {} and the response after it
Published(r, code, events) ==
  [Finish(r, code) EXCEPT !.pub = IF getIO(ioInstance).threw THEN <<>> ELSE events]

(* ------------------------ MessageThread store ------------------------- *)
ThreadIds == 1..Len(threads)

Exists(tid) == tid \in ThreadIds

\* Map of Number: $set of one key
SetKey(f, k, v) == [x \in (DOMAIN f) \cup {k} |-> IF x = k THEN v ELSE f[x]]

\* Map of Number: $inc of one key by 1 (a missing key counts from 0)
IncKey(f, k) ==
  [x \in (DOMAIN f) \cup {k} |->
     IF x = k THEN (IF k \in DOMAIN f THEN f[k] ELSE 0) + 1 ELSE f[x]]

\* the identity mode that ignores the anonymous flag
identityModeStudent(anonymous) == "student"

\* lines 198, 218, 334: anonymous ? "anonymous" : "student"
identityModeOf(anonymous) == IF anonymous THEN "anonymous" ELSE "student"

\* MessageThread.create({...}) of ensureThread, with the schema defaults
NewThread(studentId, anonymous) ==
  [studentId        |-> studentId,
   counselorId      |-> NULL,
   claimedAt        |-> NoDate,
   participants     |-> {studentId},
   anonymous        |-> anonymous,
   identityMode     |-> identityModeOf(anonymous),
   identityLocked   |-> FALSE,
   identityLockedAt |-> NoDate,
   status           |-> "open",
   closedAt         |-> NoDate,
   closedBy         |-> NULL,
   lastMessage      |-> <<>>,
   lastMessageAt    |-> NoDate,
   unreadCounts     |-> [x \in {studentId} |-> 0],
   unassignedUnread |-> 0]

\* the fields of the loaded document that sendMessage reads or assigns
LoadedDoc(t) ==
  [studentId |-> t.studentId, counselorId |-> t.counselorId, status |-> t.status,
   anonymous |-> t.anonymous, identityMode |-> t.identityMode,
   identityLocked |-> t.identityLocked, participants |-> t.participants]

\* MessageThread.model.js lines 42-49: the pre-save hook pushes the student
\* and the counselor of the document being saved when its participants
\* lack them; the users it pushes
preSave(doc) ==
  ({doc.studentId} \cup (IF doc.counselorId # NULL THEN {doc.counselorId} ELSE {}))
    \ doc.participants

\* .select("studentId counselorId status").lean()
SelectHead(t) ==
  [studentId |-> t.studentId, counselorId |-> t.counselorId, status |-> t.status]

\* the threads of a student whatever their status
ThreadsOfAnyStatus(u) == {i \in ThreadIds : threads[i].studentId = u}

\* the open threads of a student: findOne({ studentId, status: "open" })
OpenThreadsOf(u) ==
  {i \in ThreadIds : threads[i].studentId = u /\ threads[i].status = "open"}

(* ----------------------------- ensureThread --------------------------- *)
\* the condition of the identity update without its lock test
IdentityChangeIgnoringLock(existing, anonReq) ==
  IsBoolean(anonReq) /\ existing.anonymous # Truthy(anonReq)

\* line 194: the identity mode may change only before it is locked, when
\* the body names a boolean that differs from the stored flag
IdentityChangeAllowed(existing, anonReq) ==
  /\ ~existing.identityLocked
  /\ IsBoolean(anonReq)
  /\ existing.anonymous # Truthy(anonReq)

\* lines 174-210, 212: role check, findOne, and the choice of the branch
EnsureFind(p, viewer, anonReq) ==
  LET r0 == [Idle EXCEPT !.op = "ensureThread", !.user = viewer,
                         !.body = [NoBody EXCEPT !.anonymous = anonReq]]
      anonymous == Truthy(anonReq)
  IN
  /\ nreq' = nreq + 1
  /\ UNCHANGED << threads, messages, rt >>
  /\ IF isCounselor(viewer)
     THEN procs' = [procs EXCEPT ![p] = Finish(r0, 403)]
     ELSE IF OpenThreadsOf(viewer) = {}
     THEN procs' = [procs EXCEPT ![p] = [r0 EXCEPT !.pc = "ensure_create"]]
     ELSE \E i \in OpenThreadsOf(viewer) :
            LET existing == threads[i]
                r1 == [r0 EXCEPT !.tid = i]
            IN IF IdentityChangeAllowed(existing, anonReq)
               THEN procs' = [procs EXCEPT ![p] = [r1 EXCEPT !.pc = "ensure_update"]]
               ELSE procs' = [procs EXCEPT ![p] = [Finish(r1, 200) EXCEPT !.ret = i]]

\* lines 195-206: findByIdAndUpdate($set anonymous, identityMode), re-read, respond
EnsureUpdate(p) ==
  LET r == procs[p]
      anonymous == Truthy(r.body.anonymous)
  IN
  /\ r.pc = "ensure_update"
  /\ threads' = [threads EXCEPT ![r.tid].anonymous = anonymous,
                                ![r.tid].identityMode = identityModeOf(anonymous)]
  /\ procs' = [procs EXCEPT ![p] = [Finish(r, 200) EXCEPT !.ret = r.tid]]
  /\ UNCHANGED << messages, nreq, rt >>

\* lines 232-236
EnsureEvents(tid) ==
  << Event("thread:created", RoleRoom, tid, 0, NULL, NULL),
     Event("thread:update", RoleRoom, tid, 0, NULL, NULL) >>

\* lines 212-238: MessageThread.create, re-read, notify, respond 201
EnsureCreate(p) ==
  LET r == procs[p]
      anonymous == Truthy(r.body.anonymous)
  IN
  /\ r.pc = "ensure_create"
  /\ threads' = Append(threads, NewThread(r.user, anonymous))
  /\ procs' = [procs EXCEPT ![p] =
                 [Published(r, 201, EnsureEvents(Len(threads) + 1))
                    EXCEPT !.tid = Len(threads) + 1, !.ret = Len(threads) + 1]]
  /\ UNCHANGED << messages, nreq, rt >>

(* ------------------------------ sendMessage --------------------------- *)
\* req.body.clientId ? String(req.body.clientId) : null
ClientIdOf(v) == IF v = NULL \/ v = "" THEN NULL ELSE v

\* the lock check taken in one direction only
IdentityConflictOneWay(thread, requestedMode) ==
  requestedMode = "anonymous" /\ ~thread.anonymous

\* lines 325-327: a locked thread refuses a send that names the other mode
IdentityConflict(thread, requestedMode) ==
  LET wantsAnonymous == (requestedMode = "anonymous")
      currentAnon == thread.anonymous
  IN requestedMode # "" /\ currentAnon # wantsAnonymous

\* the claimed-by-another check switched off
ClaimedByOtherNever(thread, viewer) == FALSE

\* line 344: thread.counselorId && String(thread.counselorId) !== viewerId
ClaimedByOther(thread, viewer) ==
  thread.counselorId # NULL /\ thread.counselorId # viewer

\* lines 277-347: id and text validation, findById, closed/owner checks,
\* identity-lock check (student), claimed-by-another check (counselor)
SendLoad(p, viewer, tid, body) ==
  LET text == cleanText(body.text)
      r0 == [Idle EXCEPT !.op = "sendMessage", !.user = viewer, !.tid = tid,
                         !.body = body, !.text = text]
      requestedMode == body.senderMode
  IN
  /\ nreq' = nreq + 1
  /\ UNCHANGED << threads, messages, rt >>
  /\ procs' = [procs EXCEPT ![p] =
       IF tid = InvalidId THEN Finish(r0, 400)
       ELSE IF text = <<>> THEN Finish(r0, 400)
       ELSE IF ~Exists(tid) THEN Finish(r0, 404)
       ELSE LET thread == LoadedDoc(threads[tid])
                r1 == [r0 EXCEPT !.thread = thread]
            IN IF thread.status = "closed" THEN Finish(r1, 400)
               ELSE IF ~isCounselor(viewer)
               THEN IF thread.studentId # viewer THEN Finish(r1, 403)
                    ELSE IF thread.identityLocked
                    THEN IF IdentityConflict(thread, requestedMode)
                         THEN Finish(r1, 409)
                         ELSE [r1 EXCEPT !.pc = "send_create"]
                    ELSE [r1 EXCEPT !.pc = "send_lock"]
               ELSE IF ClaimedByOther(thread, viewer)
                    THEN Finish(r1, 403)
                    ELSE IF thread.counselorId = NULL
                    THEN [r1 EXCEPT !.pc = "send_claim"]
                    ELSE [r1 EXCEPT !.pc = "send_join"] ]

\* lines 332-337: lock on the first student message; thread.save() writes
\* the paths whose value differs from the loaded document
SendLock(p) ==
  LET r == procs[p]
      wantsAnonymous == (r.body.senderMode = "anonymous")
      mode == identityModeOf(wantsAnonymous)
      old == threads[r.tid]
      saved == [old EXCEPT
                 !.anonymous = IF r.thread.anonymous # wantsAnonymous
                               THEN wantsAnonymous ELSE @,
                 !.identityMode = IF r.thread.identityMode # mode THEN mode ELSE @,
                 !.identityLocked = TRUE,
                 !.identityLockedAt = Now,
                 !.participants = @ \cup preSave(r.thread)]
  IN
  /\ r.pc = "send_lock"
  /\ threads' = [threads EXCEPT ![r.tid] = saved]
  /\ procs' = [procs EXCEPT ![p] =
       [r EXCEPT !.pc = "send_create", !.lockedNow = TRUE,
                 !.thread = [r.thread EXCEPT !.anonymous = wantsAnonymous,
                                             !.identityMode = mode,
                                             !.identityLocked = TRUE,
                                             !.participants = @ \cup preSave(r.thread)]]]
  /\ UNCHANGED << messages, nreq, rt >>

\* the claim update with the identity lock added to its $set
ClaimUpdateLocking(t, viewer, now) ==
  [t EXCEPT !.counselorId = viewer,
            !.claimedAt = now,
            !.unassignedUnread = 0,
            !.participants = @ \cup {viewer},
            !.identityLocked = TRUE,
            !.identityLockedAt = now]

\* lines 352-356: $set counselorId, claimedAt, unassignedUnread and
\* $addToSet participants of the claim
ClaimUpdate(t, viewer, now) ==
  [t EXCEPT !.counselorId = viewer,
            !.claimedAt = now,
            !.unassignedUnread = 0,
            !.participants = @ \cup {viewer}]

\* the claim filter without its counselorId: null condition
ClaimFilterAnyOwner(t) == t.status = "open"

\* the filter { _id, counselorId: null, status: "open" } of the claim
ClaimFilter(t) == t.counselorId = NULL /\ t.status = "open"

\* lines 349-366: claim-on-reply, one findOneAndUpdate
SendClaim(p) ==
  LET r == procs[p]
      old == threads[r.tid]
      claimed == ClaimUpdate(old, r.user, Now)
  IN
  /\ r.pc = "send_claim"
  /\ IF ClaimFilter(old)
     THEN /\ threads' = [threads EXCEPT ![r.tid] = claimed]
          /\ procs' = [procs EXCEPT ![p] =
               [r EXCEPT !.pc = "send_create", !.thread = LoadedDoc(claimed),
                         !.claimedNow = TRUE]]
     ELSE /\ procs' = [procs EXCEPT ![p] = Finish(r, 409)]
          /\ UNCHANGED threads
  /\ UNCHANGED << messages, nreq, rt >>

\* lines 367-370: the assigned counselor is added to participants
SendJoin(p) ==
  LET r == procs[p] IN
  /\ r.pc = "send_join"
  /\ threads' = [threads EXCEPT ![r.tid].participants = @ \cup {r.user}]
  /\ procs' = [procs EXCEPT ![p] = [r EXCEPT !.pc = "send_create"]]
  /\ UNCHANGED << messages, nreq, rt >>

\* the unique index { threadId: 1, senderId: 1, clientId: 1 }: every
\* document has threadId and senderId, so every document is in the index,
\* the ones with clientId null included
DuplicateKey(threadId, senderId, clientId) ==
  \E i \in 1..Len(messages) :
     /\ messages[i].threadId = threadId
     /\ messages[i].senderId = senderId
     /\ messages[i].clientId = clientId

\* lines 376-391: Message.create and its catch
SendCreate(p) ==
  LET r == procs[p]
      clientId == ClientIdOf(r.body.clientId)
      doc == [threadId |-> r.tid, senderId |-> r.user,
              senderRole |-> senderRoleLabel(r.user), clientId |-> clientId,
              text |-> SchemaText(r.text), createdAt |-> Len(messages) + 1]
  IN
  /\ r.pc = "send_create"
  /\ IF ~SchemaTextValid(doc.text)
     THEN /\ procs' = [procs EXCEPT ![p] = Finish(r, 500)]
          /\ UNCHANGED messages
     ELSE IF DuplicateKey(r.tid, r.user, clientId)
     THEN /\ procs' = [procs EXCEPT ![p] =
               IF clientId # NULL
               THEN [r EXCEPT !.pc = "send_find", !.dup = TRUE]
               ELSE [Finish(r, 500) EXCEPT !.dup = TRUE]]
          /\ UNCHANGED messages
     ELSE /\ messages' = Append(messages, doc)
          /\ procs' = [procs EXCEPT ![p] =
               [r EXCEPT !.pc = "send_summary", !.msgDoc = Len(messages) + 1]]
  /\ UNCHANGED << threads, nreq, rt >>

\* line 387: Message.findOne({ threadId, senderId, clientId })
SendFind(p) ==
  LET r == procs[p]
      clientId == ClientIdOf(r.body.clientId)
  IN
  /\ r.pc = "send_find"
  /\ \E i \in 1..Len(messages) :
       /\ messages[i].threadId = r.tid
       /\ messages[i].senderId = r.user
       /\ messages[i].clientId = clientId
       /\ procs' = [procs EXCEPT ![p] = [r EXCEPT !.pc = "send_summary", !.msgDoc = i]]
  /\ UNCHANGED << threads, messages, nreq, rt >>

\* the summary update with the recipient's counter $set to 1, not $inc'ed
SummaryUpdateSetOne(t, viewer, thread, text, createdAt) ==
  LET set == [t EXCEPT !.lastMessage = text,
                       !.lastMessageAt = createdAt,
                       !.unreadCounts = SetKey(@, viewer, 0)]
  IN IF isCounselor(viewer)
     THEN [set EXCEPT !.unreadCounts = SetKey(@, thread.studentId, 1)]
     ELSE IF thread.counselorId # NULL
     THEN [set EXCEPT !.unreadCounts = SetKey(@, thread.counselorId, 1)]
     ELSE [set EXCEPT !.unassignedUnread = 1]

\* lines 393-419: $set lastMessage, lastMessageAt, own counter; $inc the
\* recipient's counter
SummaryUpdate(t, viewer, thread, text, createdAt) ==
  LET set == [t EXCEPT !.lastMessage = text,
                       !.lastMessageAt = createdAt,
                       !.unreadCounts = SetKey(@, viewer, 0)]
  IN IF isCounselor(viewer)
     THEN [set EXCEPT !.unreadCounts = IncKey(@, thread.studentId)]
     ELSE IF thread.counselorId # NULL
     THEN [set EXCEPT !.unreadCounts = IncKey(@, thread.counselorId)]
     ELSE [set EXCEPT !.unassignedUnread = @ + 1]

\* the events of a send with the message and the thread's student put
\* into the role channel's thread:update
SendEventsRoleMessage(r, updatedThread) ==
  << Event("message:new", ThreadRoom(r.tid), r.tid, r.msgDoc, updatedThread.counselorId, NULL),
     Event("thread:update", RoleRoom, r.tid, r.msgDoc, NULL, r.thread.studentId) >>

\* lines 430-465: the events of a send, given the document the summary
\* update returned
SendEvents(r, updatedThread) ==
  << Event("message:new", ThreadRoom(r.tid), r.tid, r.msgDoc, updatedThread.counselorId, NULL),
     Event("message:new", UserRoom(r.thread.studentId), r.tid, r.msgDoc,
           updatedThread.counselorId, NULL) >>
  \o (IF updatedThread.counselorId # NULL
      THEN << Event("message:new", UserRoom(updatedThread.counselorId), r.tid, r.msgDoc,
                    updatedThread.counselorId, NULL) >>
      ELSE << >>)
  \o << Event("thread:update", RoleRoom, r.tid, 0, NULL, NULL),
        IF r.claimedNow
        THEN Event("thread:claimed", RoleRoom, r.tid, 0, r.user, NULL)
        ELSE Event("thread:update", RoleRoom, r.tid, 0, NULL, NULL) >>

\* lines 393-467: thread summary and unread counters, publish, respond 201
SendSummary(p) ==
  LET r == procs[p]
      createdAt == messages[r.msgDoc].createdAt
      updatedThread == SummaryUpdate(threads[r.tid], r.user, r.thread, r.text, createdAt)
  IN
  /\ r.pc = "send_summary"
  /\ threads' = [threads EXCEPT ![r.tid] = updatedThread]
  /\ procs' = [procs EXCEPT ![p] =
                 [Published(r, 201, SendEvents(r, updatedThread)) EXCEPT !.ret = r.msgDoc]]
  /\ UNCHANGED << messages, nreq, rt >>

(* ------------------------- getThread, listThreads ---------------------- *)
\* lines 56-75: the student's identity is hidden from a counselor when the
\* thread is anonymous or is not assigned to that counselor
maskThreadNotAnonymous(thread, viewer) ==
  IF isCounselor(viewer) /\ thread.counselorId # viewer
  THEN [thread EXCEPT !.studentId = NULL]
  ELSE thread

maskThreadForViewer(thread, viewer) ==
  LET assignedId == IF thread.counselorId # NULL THEN thread.counselorId ELSE ""
      isAssignedToMe == assignedId # "" /\ assignedId = viewer
  IN IF isCounselor(viewer)
     THEN IF thread.anonymous THEN [thread EXCEPT !.studentId = NULL]
          ELSE IF ~isAssignedToMe THEN [thread EXCEPT !.studentId = NULL]
          ELSE thread
     ELSE thread

\* lines 98-102
canAccessThread(thread, viewer) ==
  IF isCounselor(viewer) THEN TRUE ELSE thread.studentId = viewer

\* lines 104-138: the fields of the response that name the thread's people
threadDto(thread, viewer) ==
  LET t == maskThreadForViewer(thread, viewer)
  IN [studentId |-> t.studentId, counselorId |-> t.counselorId,
      anonymous |-> t.anonymous]

\* lines 245-267: id check, findById, access check
GetLoad(p, viewer, tid) ==
  LET r0 == [Idle EXCEPT !.op = "getThread", !.user = viewer, !.tid = tid] IN
  /\ nreq' = nreq + 1
  /\ UNCHANGED << threads, messages, rt >>
  /\ procs' = [procs EXCEPT ![p] =
       IF tid = InvalidId THEN Finish(r0, 400)
       ELSE IF ~Exists(tid) THEN Finish(r0, 404)
       ELSE LET thread == LoadedDoc(threads[tid])
                r1 == [r0 EXCEPT !.thread = thread]
            IN IF ~canAccessThread(thread, viewer) THEN Finish(r1, 403)
               ELSE [r1 EXCEPT !.pc = "get_messages"] ]

\* lines 269-270: getMessagesForThread, respond with the thread's dto
GetRespond(p) ==
  LET r == procs[p] IN
  /\ r.pc = "get_messages"
  /\ procs' = [procs EXCEPT ![p] =
                 [Finish(r, 200) EXCEPT !.item = threadDto(r.thread, r.user)]]
  /\ UNCHANGED << threads, messages, nreq, rt >>

\* the query of listThreads without its studentId condition
ListQueryAnyStudent(viewer, t) ==
  IF isCounselor(viewer)
  THEN t.status \in {"open", "closed"}
  ELSE t.status = "open"

\* lines 151-153: the query of listThreads
ListQuery(viewer, t) ==
  IF isCounselor(viewer)
  THEN t.status \in {"open", "closed"}
  ELSE t.studentId = viewer /\ t.status = "open"

\* lines 145-159: MessageThread.find(q); the documents found, by _id
ListFind(p, viewer) ==
  LET r0 == [Idle EXCEPT !.op = "listThreads", !.user = viewer]
      found == {[tid |-> i, doc |-> LoadedDoc(threads[i])] :
                  i \in {j \in ThreadIds : ListQuery(viewer, threads[j])}}
  IN
  /\ nreq' = nreq + 1
  /\ UNCHANGED << threads, messages, rt >>
  /\ procs' = [procs EXCEPT ![p] = [r0 EXCEPT !.pc = "list_messages", !.found = found]]

\* lines 161-167: the messages of each thread, the dtos, the response (the
\* order of the items is not represented)
ListRespond(p) ==
  LET r == procs[p] IN
  /\ r.pc = "list_messages"
  /\ procs' = [procs EXCEPT ![p] =
       [Finish(r, 200) EXCEPT
          !.list = {[tid |-> f.tid, item |-> threadDto(f.doc, r.user)] : f \in r.found}]]
  /\ UNCHANGED << threads, messages, nreq, rt >>

(* -------------------------------- markRead ---------------------------- *)
\* lines 474-498: findById(select), closed and owner checks
MarkLoad(p, viewer, tid) ==
  LET r0 == [Idle EXCEPT !.op = "markRead", !.user = viewer, !.tid = tid] IN
  /\ nreq' = nreq + 1
  /\ UNCHANGED << threads, messages, rt >>
  /\ procs' = [procs EXCEPT ![p] =
       IF tid = InvalidId THEN Finish(r0, 400)
       ELSE IF ~Exists(tid) THEN Finish(r0, 404)
       ELSE LET thread == SelectHead(threads[tid])
                r1 == [r0 EXCEPT !.thread = thread]
            IN IF thread.status = "closed" THEN Finish(r1, 200)
               ELSE IF ~isCounselor(viewer) /\ thread.studentId # viewer
               THEN Finish(r1, 403)
               ELSE [r1 EXCEPT !.pc = "mark_write"] ]

\* lines 505-511
MarkEvents(r) ==
  << Event("thread:read", UserRoom(r.user), r.tid, 0, NULL, r.user),
     Event("thread:read", ThreadRoom(r.tid), r.tid, 0, NULL, r.user),
     Event("thread:update", RoleRoom, r.tid, 0, NULL, NULL) >>

\* the update of markRead zeroing every counter of the thread
MarkUpdateAll(t, viewer) ==
  [t EXCEPT !.unreadCounts = [x \in DOMAIN @ \cup {viewer} |-> 0],
            !.unassignedUnread = 0]

\* lines 500-503: { $set: { "unreadCounts.<viewer>": 0 } }
MarkUpdate(t, viewer) == [t EXCEPT !.unreadCounts = SetKey(@, viewer, 0)]

\* lines 500-513: $set unreadCounts.<viewer> = 0, publish, respond
MarkWrite(p) ==
  LET r == procs[p] IN
  /\ r.pc = "mark_write"
  /\ threads' = [threads EXCEPT ![r.tid] = MarkUpdate(@, r.user)]
  /\ procs' = [procs EXCEPT ![p] = Published(r, 200, MarkEvents(r))]
  /\ UNCHANGED << messages, nreq, rt >>

(* ------------------------------- closeThread -------------------------- *)
\* the caller check of closeThread with its counselor branch left out
CloseForbiddenStudentOnly(thread, viewer) ==
  ~isCounselor(viewer) /\ thread.studentId # viewer

\* lines 538-552: who may not close the thread
CloseForbidden(thread, viewer) ==
  IF ~isCounselor(viewer)
  THEN thread.studentId # viewer
  ELSE thread.counselorId = NULL \/ thread.counselorId # viewer

\* lines 523-556: findById(select), caller checks, already-closed return
CloseLoad(p, viewer, tid) ==
  LET r0 == [Idle EXCEPT !.op = "closeThread", !.user = viewer, !.tid = tid] IN
  /\ nreq' = nreq + 1
  /\ UNCHANGED << threads, messages, rt >>
  /\ procs' = [procs EXCEPT ![p] =
       IF tid = InvalidId THEN Finish(r0, 400)
       ELSE IF ~Exists(tid) THEN Finish(r0, 404)
       ELSE LET thread == SelectHead(threads[tid])
                r1 == [r0 EXCEPT !.thread = thread]
            IN IF CloseForbidden(thread, viewer) THEN Finish(r1, 403)
               ELSE IF thread.status = "closed" THEN Finish(r1, 200)
               ELSE [r1 EXCEPT !.pc = "close_write"] ]

\* lines 572-582
CloseEvents(r) ==
  << Event("thread:closed", ThreadRoom(r.tid), r.tid, 0, NULL, NULL),
     Event("thread:closed", UserRoom(r.thread.studentId), r.tid, 0, NULL, NULL) >>
  \o (IF r.thread.counselorId # NULL
      THEN << Event("thread:closed", UserRoom(r.thread.counselorId), r.tid, 0, NULL, NULL) >>
      ELSE << >>)
  \o << Event("thread:update", RoleRoom, r.tid, 0, NULL, NULL) >>

\* lines 558-584: $set status, closedAt, closedBy and the zeroed counters
CloseWrite(p) ==
  LET r == procs[p]
      zs == SetKey(threads[r.tid].unreadCounts, r.thread.studentId, 0)
      zc == IF r.thread.counselorId # NULL
            THEN SetKey(zs, r.thread.counselorId, 0) ELSE zs
  IN
  /\ r.pc = "close_write"
  /\ threads' = [threads EXCEPT ![r.tid].status = "closed",
                                ![r.tid].closedAt = Now,
                                ![r.tid].closedBy = r.user,
                                ![r.tid].unassignedUnread = 0,
                                ![r.tid].unreadCounts = zc]
  /\ procs' = [procs EXCEPT ![p] = Published(r, 200, CloseEvents(r))]
  /\ UNCHANGED << messages, nreq, rt >>

(* --------------------------- specification ---------------------------- *)
\* The store is empty, or holds the one thread that an earlier ensureThread
\* of student s1 has created (no message sent yet)
Init ==
  /\ threads \in {<<>>, << NewThread("s1", FALSE) >>}
  /\ messages = <<>>
  /\ procs = [p \in Procs |-> Idle]
  /\ nreq = 0
  /\ ioInstance = initSocket(NoServer)
  /\ socks = [u \in SocketUsers |-> NoSocket]

\* request inputs
AnonymousInputs == {NULL, JTrue, JFalse}
SenderModes == {"", "student", "anonymous"}
ClientIds == {NULL, "k1"}
TargetIds == ThreadIds
Texts == {TextHi}

\* senderMode is read for student senders only
Bodies(viewer) ==
  [text : Texts, clientId : ClientIds, anonymous : {NULL},
   senderMode : IF isCounselor(viewer) THEN {""} ELSE SenderModes]

\* req.body.anonymous is read for callers that are not counselors
EnsureInputs(viewer) == IF isCounselor(viewer) THEN {NULL} ELSE AnonymousInputs

\* every counselor is refused alike: one of them calls ensureThread
EnsureCallers == Students \cup {"c1"}

EnsureRequest(p) ==
  /\ Accept(p)
  /\ \E u \in EnsureCallers : \E a \in EnsureInputs(u) : EnsureFind(p, u, a)
SendRequest(p) ==
  /\ Accept(p)
  /\ \E u \in Users, t \in TargetIds : \E b \in Bodies(u) : SendLoad(p, u, t, b)
MarkRequest(p) == Accept(p) /\ \E u \in Users, t \in TargetIds : MarkLoad(p, u, t)
CloseRequest(p) == Accept(p) /\ \E u \in Users, t \in TargetIds : CloseLoad(p, u, t)

Next ==
  \/ \E p \in Procs : EnsureRequest(p)
  \/ \E p \in Procs : EnsureUpdate(p)
  \/ \E p \in Procs : EnsureCreate(p)
  \/ \E p \in Procs : SendRequest(p)
  \/ \E p \in Procs : SendLock(p)
  \/ \E p \in Procs : SendClaim(p)
  \/ \E p \in Procs : SendJoin(p)
  \/ \E p \in Procs : SendCreate(p)
  \/ \E p \in Procs : SendFind(p)
  \/ \E p \in Procs : SendSummary(p)
  \/ \E p \in Procs : MarkRequest(p)
  \/ \E p \in Procs : MarkWrite(p)
  \/ \E p \in Procs : CloseRequest(p)
  \/ \E p \in Procs : CloseWrite(p)

Spec == Init /\ [][Next]_vars

(* ----------------- specification: message text inputs ------------------ *)
\* request bodies whose text is blank, padded, or around the length limit
TextBlank == << Run("sp", 3) >>
TextControl == << Run("ctl", 2) >>
TextPadded == << Run("sp", 1), Run("ch", 2), Run("ctl", 1), Run("ch", 1), Run("sp", 2) >>
TextMax == << Run("ch", TextLimit) >>
TextLong == << Run("ch", TextLimit + 1) >>
TextLongBlank == << Run("sp", TextLimit + 1) >>
TextLongTail == << Run("ch", TextLimit - 1), Run("sp", 1), Run("ch", 5) >>
TextControlLong == << Run("ctl", TextLimit), Run("ch", 1) >>

TextInputs ==
  {<<>>, TextBlank, TextControl, TextPadded, TextMax, TextLong, TextLongBlank,
   TextLongTail, TextControlLong}

TextSenders == {"s1", "c1"}

TextBodies ==
  [text : TextInputs, clientId : {"k1"}, anonymous : {NULL}, senderMode : {""}]

EnsureRequestText(p) == Accept(p) /\ EnsureFind(p, "s1", NULL)
SendRequestText(p) ==
  /\ Accept(p)
  /\ \E u \in TextSenders, t \in TargetIds, b \in TextBodies : SendLoad(p, u, t, b)

NextText ==
  \/ \E p \in Procs : EnsureRequestText(p)
  \/ \E p \in Procs : EnsureCreate(p)
  \/ \E p \in Procs : SendRequestText(p)
  \/ \E p \in Procs : SendLock(p)
  \/ \E p \in Procs : SendClaim(p)
  \/ \E p \in Procs : SendJoin(p)
  \/ \E p \in Procs : SendCreate(p)
  \/ \E p \in Procs : SendFind(p)
  \/ \E p \in Procs : SendSummary(p)

SpecText == Init /\ [][NextText]_vars

(* ------------------------------ socket.js ------------------------------ *)
\* lines 48-63: the first initSocket creates the server
InitSocket ==
  /\ ioInstance = NoServer
  /\ ioInstance' = initSocket(ioInstance)
  /\ UNCHANGED << threads, messages, procs, nreq, socks >>

\* the channels of the connection handler with role:counselor joined by
\* every role
HandshakeChannelsAllRoles(u) == {UserRoom(u), RoleRoom}

\* lines 69-75: socket.join(user:<id>) and, when the lowercased role is
\* "counselor", socket.join("role:counselor")
HandshakeChannels(u) ==
  {UserRoom(u)} \cup (IF roleLower(u) = "counselor" THEN {RoleRoom} ELSE {})

\* the accepted connection of a user before its auto-join
Connected(u) ==
  [conn |-> TRUE, rooms |-> {}, chans |-> HandshakeChannels(u), pc |-> "auto",
   tok |-> u]

\* lines 22-46, 65-75: an authenticated handshake; the connection joins
\* user:<id> and, for a counselor, role:counselor
Connect(u) ==
  /\ ioInstance # NoServer
  /\ ~socks[u].conn
  /\ socks' = [socks EXCEPT ![u] = Connected(u)]
  /\ UNCHANGED << threads, messages, procs, nreq, ioInstance >>

\* lines 77-85: find({ participants: userId }), join each thread:<id>, then
\* register the thread:join listener
AutoJoin(u) ==
  /\ socks[u].conn /\ socks[u].pc = "auto"
  /\ socks' = [socks EXCEPT ![u].rooms =
                  @ \cup {i \in ThreadIds : u \in threads[i].participants},
                              ![u].pc = "ready"]
  /\ UNCHANGED << threads, messages, procs, nreq, ioInstance >>

\* the join rule with every counselor admitted to every thread
JoinAllowedAnyCounselor(u, tid) ==
  /\ Exists(tid)
  /\ isCounselor(u) \/ (threads[tid].status = "open" /\ u \in threads[tid].participants)

\* lines 89-119: who may join thread:<id>
JoinAllowed(u, tid) ==
  /\ Exists(tid)
  /\ IF isCounselor(u)
     THEN IF threads[tid].counselorId = NULL
          THEN threads[tid].status = "open"
          ELSE threads[tid].counselorId = u
     ELSE threads[tid].status = "open" /\ u \in threads[tid].participants

\* lines 85-125: the thread:join listener, findById and socket.join
ThreadJoin(u, tid) ==
  /\ socks[u].conn /\ socks[u].pc = "ready"
  /\ tid \notin socks[u].rooms
  /\ socks' = [socks EXCEPT ![u].rooms = IF JoinAllowed(u, tid) THEN @ \cup {tid} ELSE @]
  /\ UNCHANGED << threads, messages, procs, nreq, ioInstance >>

\* the connection ends and leaves every channel
Disconnect(u) ==
  /\ socks[u].conn
  /\ socks' = [socks EXCEPT ![u] = NoSocket]
  /\ UNCHANGED << threads, messages, procs, nreq, ioInstance >>

(* ---------------- specification: realtime publication ------------------ *)
\* the HTTP handlers run before and after initSocket, with connections that
\* come, join thread channels and go
RealtimeBodies ==
  [text : Texts, clientId : {NULL}, anonymous : {NULL}, senderMode : {""}]

RealtimeSenders == {"s1", "c1"}

EnsureRequestRealtime(p) == Accept(p) /\ EnsureFind(p, "s1", NULL)
SendRequestRealtime(p) ==
  /\ Accept(p)
  /\ \E u \in RealtimeSenders, t \in TargetIds, b \in RealtimeBodies : SendLoad(p, u, t, b)
MarkRequestRealtime(p) == Accept(p) /\ \E t \in TargetIds : MarkLoad(p, "s1", t)
CloseRequestRealtime(p) == Accept(p) /\ \E t \in TargetIds : CloseLoad(p, "s1", t)

ConnectSocket == \E u \in SocketUsers : Connect(u)
AutoJoinSocket == \E u \in SocketUsers : AutoJoin(u)
ThreadJoinSocket == \E u \in SocketUsers, t \in ThreadIds \cup {UnknownId} : ThreadJoin(u, t)
DisconnectSocket == \E u \in SocketUsers : Disconnect(u)

InitRealtime ==
  /\ threads \in {<<>>, << NewThread("s1", FALSE) >>}
  /\ messages = <<>>
  /\ procs = [p \in Procs |-> Idle]
  /\ nreq = 0
  /\ ioInstance = NoServer
  /\ socks = [u \in SocketUsers |-> NoSocket]

NextRealtime ==
  \/ InitSocket
  \/ ConnectSocket
  \/ AutoJoinSocket
  \/ ThreadJoinSocket
  \/ DisconnectSocket
  \/ \E p \in Procs : EnsureRequestRealtime(p)
  \/ \E p \in Procs : EnsureCreate(p)
  \/ \E p \in Procs : SendRequestRealtime(p)
  \/ \E p \in Procs : SendLock(p)
  \/ \E p \in Procs : SendClaim(p)
  \/ \E p \in Procs : SendJoin(p)
  \/ \E p \in Procs : SendCreate(p)
  \/ \E p \in Procs : SendSummary(p)
  \/ \E p \in Procs : MarkRequestRealtime(p)
  \/ \E p \in Procs : MarkWrite(p)
  \/ \E p \in Procs : CloseRequestRealtime(p)
  \/ \E p \in Procs : CloseWrite(p)

SpecRealtime == InitRealtime /\ [][NextRealtime]_vars

(* ------------- specification: closeThread against senders ------------- *)
\* one thread, its student s1 and counselor c1; one request more than
\* MaxRequests, so that a close can overlap a claim and a later send
AcceptMore(p) == FreeSlot(p) /\ nreq <= MaxRequests

CloseUsers == {"s1", "c1"}

CloseBodies ==
  [text : Texts, clientId : {NULL}, anonymous : {NULL}, senderMode : {""}]

SendRequestClose(p) ==
  /\ AcceptMore(p)
  /\ \E u \in CloseUsers, t \in TargetIds, b \in CloseBodies : SendLoad(p, u, t, b)
CloseRequestClose(p) ==
  /\ AcceptMore(p)
  /\ \E u \in CloseUsers, t \in TargetIds : CloseLoad(p, u, t)

InitClose ==
  /\ threads = << NewThread("s1", FALSE) >>
  /\ messages = <<>>
  /\ procs = [p \in Procs |-> Idle]
  /\ nreq = 0
  /\ ioInstance = initSocket(NoServer)
  /\ socks = [u \in SocketUsers |-> NoSocket]

NextClose ==
  \/ \E p \in Procs : SendRequestClose(p)
  \/ \E p \in Procs : SendLock(p)
  \/ \E p \in Procs : SendClaim(p)
  \/ \E p \in Procs : SendJoin(p)
  \/ \E p \in Procs : SendCreate(p)
  \/ \E p \in Procs : SendSummary(p)
  \/ \E p \in Procs : CloseRequestClose(p)
  \/ \E p \in Procs : CloseWrite(p)

SpecClose == InitClose /\ [][NextClose]_vars

(* ---------------- specification: reading the threads ------------------ *)
\* viewers of every role: the owner s1, another student, two counselors, an admin
OtherStudents == {"s2"}
Readers == Users \cup OtherStudents \cup Admins

ReadTargets == ThreadIds \cup {UnknownId}

ReadBodies ==
  [text : Texts, clientId : {NULL}, anonymous : {NULL}, senderMode : {""}]

EnsureRequestRead(p) ==
  /\ AcceptMore(p)
  /\ \E a \in AnonymousInputs : EnsureFind(p, "s1", a)
SendRequestRead(p) ==
  /\ AcceptMore(p)
  /\ \E t \in TargetIds, b \in ReadBodies : SendLoad(p, "c1", t, b)
CloseRequestRead(p) ==
  /\ AcceptMore(p)
  /\ \E t \in TargetIds : CloseLoad(p, "s1", t)
GetRequest(p) ==
  /\ AcceptMore(p)
  /\ \E u \in Readers, t \in ReadTargets : GetLoad(p, u, t)
ListRequest(p) ==
  /\ AcceptMore(p)
  /\ \E u \in Readers : ListFind(p, u)

NextRead ==
  \/ \E p \in Procs : EnsureRequestRead(p)
  \/ \E p \in Procs : EnsureUpdate(p)
  \/ \E p \in Procs : EnsureCreate(p)
  \/ \E p \in Procs : SendRequestRead(p)
  \/ \E p \in Procs : SendClaim(p)
  \/ \E p \in Procs : SendJoin(p)
  \/ \E p \in Procs : SendCreate(p)
  \/ \E p \in Procs : SendSummary(p)
  \/ \E p \in Procs : CloseRequestRead(p)
  \/ \E p \in Procs : CloseWrite(p)
  \/ \E p \in Procs : GetRequest(p)
  \/ \E p \in Procs : GetRespond(p)
  \/ \E p \in Procs : ListRequest(p)
  \/ \E p \in Procs : ListRespond(p)

SpecRead == Init /\ [][NextRead]_vars

(* ------------------------------ properties --------------------------- *)
\* the messages a user has stored in a thread
MsgsOf(tid, u) ==
  {i \in 1..Len(messages) : messages[i].threadId = tid /\ messages[i].senderId = u}

\* a finished sendMessage of a counselor that found the thread open
CounselorSendDone(r) ==
  /\ r.op = "sendMessage" /\ r.pc = "done"
  /\ isCounselor(r.user)
  /\ r.thread.status = "open"

\* the call found counselorId null when it loaded the thread (a winning
\* call holds the claimed document afterwards)
ReadUnclaimed(r) == r.claimedNow \/ r.thread.counselorId = NULL

\* two finished sends of different counselors that raced for one open,
\* unclaimed thread: at least one read it unclaimed, none of them read it
\* as claimed by anyone but the other, the thread is still open, no third
\* call stored a message under their keys and no third call took the claim
ClaimRace(p, q) ==
  /\ p # q
  /\ CounselorSendDone(procs[p]) /\ CounselorSendDone(procs[q])
  /\ procs[p].tid = procs[q].tid
  /\ procs[p].user # procs[q].user
  /\ ReadUnclaimed(procs[p]) \/ ReadUnclaimed(procs[q])
  /\ ReadUnclaimed(procs[p]) \/ procs[p].thread.counselorId = procs[q].user
  /\ ReadUnclaimed(procs[q]) \/ procs[q].thread.counselorId = procs[p].user
  /\ threads[procs[p].tid].status = "open"
  /\ ~procs[p].dup /\ ~procs[q].dup
  /\ threads[procs[p].tid].counselorId # NULL
       => procs[p].claimedNow \/ procs[q].claimedNow

\* w won the claim and its message is stored, l failed and stored nothing
WonAgainst(w, l) ==
  LET t == procs[w].tid IN
  /\ procs[w].claimedNow /\ procs[w].status = 201
  /\ threads[t].counselorId = procs[w].user
  /\ procs[w].ret \in MsgsOf(t, procs[w].user)
  /\ ~procs[l].claimedNow /\ procs[l].status \in {409, 403}
  /\ MsgsOf(t, procs[l].user) = {}

\* C1: when two different counselors send concurrently on the same open,
\* unclaimed thread, exactly one call succeeds with claimedNow = true, its
\* message stored and counselorId set to it; the other call fails with 409
\* or 403 and stores no message
C1_OneClaimWinner ==
  \A p, q \in Procs :
    ClaimRace(p, q) =>
      /\ WonAgainst(p, q) \/ WonAgainst(q, p)
      /\ ~(procs[p].claimedNow /\ procs[q].claimedNow)

C1_Witness ==
  \E p, q \in Procs :
    /\ ClaimRace(p, q)
    /\ ReadUnclaimed(procs[p]) /\ ReadUnclaimed(procs[q])
    /\ WonAgainst(p, q)
    /\ procs[q].status = 409

\* C2: counselorId of a thread changes at most once: once it holds a
\* counselor's id no step changes it to another id or back to null
C2_CounselorIdSetOnce ==
  [][\A i \in ThreadIds :
       threads[i].counselorId # NULL =>
         threads'[i].counselorId = threads[i].counselorId]_vars

\* a claimed thread on which another counselor's send has been refused
C2_Witness ==
  \E i \in ThreadIds, p \in Procs :
    /\ threads[i].counselorId # NULL
    /\ CounselorSendDone(procs[p])
    /\ procs[p].tid = i
    /\ procs[p].user # threads[i].counselorId
    /\ procs[p].status \in {403, 409}

\* C3: once identityLocked is true the stored anonymous value and
\* identityMode never change again
C3_LockedIdentityFrozen ==
  [][\A i \in ThreadIds :
       threads[i].identityLocked =>
         /\ threads'[i].anonymous = threads[i].anonymous
         /\ threads'[i].identityMode = threads[i].identityMode]_vars

\* C4: at every time each student has at most one thread with status open
C4_OneOpenThreadPerStudent ==
  \A u \in Students : Cardinality(OpenThreadsOf(u)) <= 1

\* the request that slot p starts in this step is a sendMessage
StartsSend(p) ==
  Free(p) /\ procs'[p] # procs[p] /\ procs'[p].op = "sendMessage"

\* C5: a student sendMessage on a locked thread whose senderMode is given
\* and differs from the frozen mode fails with 409, stores no message and
\* leaves the thread (anonymous, identityMode, lastMessage, counters) unchanged
C5_LockedConflictRejected ==
  [][\A p \in Procs :
       LET r == procs'[p] IN
       ( /\ StartsSend(p)
         /\ ~isCounselor(r.user)
         /\ r.tid \in ThreadIds
         /\ threads[r.tid].status = "open"
         /\ threads[r.tid].studentId = r.user
         /\ r.text # <<>>
         /\ threads[r.tid].identityLocked
         /\ r.body.senderMode # ""
         /\ r.body.senderMode # threads[r.tid].identityMode )
       => /\ r.pc = "done" /\ r.status = 409 /\ r.msgDoc = 0
          /\ messages' = messages
          /\ threads' = threads]_vars

C5_Witness ==
  \E p \in Procs :
    /\ procs[p].op = "sendMessage" /\ procs[p].pc = "done"
    /\ ~isCounselor(procs[p].user)
    /\ procs[p].status = 409
    /\ threads[procs[p].tid].identityLocked
    /\ procs[p].body.senderMode # threads[procs[p].tid].identityMode
    /\ MsgsOf(procs[p].tid, procs[p].user) # {}

\* C6: the first student sendMessage on an unlocked thread sets
\* identityLocked and freezes anonymous to the mode requested on that send,
\* or, when the send names no senderMode, to the value the thread had
C6_FirstSendFreezesMode ==
  [][\A p \in Procs :
       ( /\ procs[p].pc = "send_lock" /\ procs'[p].pc = "send_create"
         /\ ~threads[procs[p].tid].identityLocked )
       => LET t == procs[p].tid
              m == procs[p].body.senderMode
          IN /\ threads'[t].identityLocked
             /\ threads'[t].anonymous =
                  IF m = "" THEN threads[t].anonymous ELSE (m = "anonymous")]_vars

\* unreadCounts entry of a user, 0 when the key is missing
Unread(t, u) == IF u \in DOMAIN t.unreadCounts THEN t.unreadCounts[u] ELSE 0

\* the other participant of a claimed thread
Other(t, u) == IF u = t.studentId THEN t.counselorId ELSE t.studentId

\* slot p takes the given step of its handler
Steps(p, from, to) == procs[p].pc = from /\ procs'[p].pc = to

\* C7: on a claimed open thread every successful sendMessage of A that
\* stores a new message adds exactly 1 to unreadCounts[B], a markRead of B
\* sets unreadCounts[B] to 0, and no step other than the counter write of a
\* send, a markRead or a close on that thread changes unreadCounts: after N
\* such sends with no markRead or send of B in between unreadCounts[B] = N
C7_UnreadCountsSends ==
  [][/\ \A p \in Procs :
          LET r == procs[p]
              t == threads[r.tid]
          IN /\ ( /\ Steps(p, "send_summary", "done") /\ ~r.dup
                  /\ r.thread.counselorId # NULL /\ t.status = "open" )
                => /\ procs'[p].status = 201
                   /\ Unread(threads'[r.tid], Other(t, r.user))
                        = Unread(t, Other(t, r.user)) + 1
             /\ ( /\ Steps(p, "mark_write", "done")
                  /\ t.counselorId # NULL /\ t.status = "open" )
                => /\ procs'[p].status = 200
                   /\ Unread(threads'[r.tid], r.user) = 0
     /\ \A i \in ThreadIds :
          (\A p \in Procs :
             (procs[p].tid = i /\ procs[p].pc \in {"send_summary", "mark_write", "close_write"})
               => procs'[p] = procs[p])
          => threads'[i].unreadCounts = threads[i].unreadCounts]_vars

\* a claimed open thread with two stored messages of A and unreadCounts[B] = 2
C7_Witness ==
  \E i \in ThreadIds :
    /\ threads[i].counselorId # NULL /\ threads[i].status = "open"
    /\ \E a \in {threads[i].studentId, threads[i].counselorId} :
         /\ Cardinality(MsgsOf(i, a)) = 2
         /\ Unread(threads[i], Other(threads[i], a)) = 2

\* two finished calls with the same thread, sender, body and clientId, on
\* a thread both found open and that is still open
SameCall(p, q) ==
  /\ p # q
  /\ procs[p].op = "sendMessage" /\ procs[p].pc = "done"
  /\ procs[q].op = "sendMessage" /\ procs[q].pc = "done"
  /\ procs[p].user = procs[q].user
  /\ procs[p].tid = procs[q].tid
  /\ procs[p].body = procs[q].body
  /\ ClientIdOf(procs[p].body.clientId) # NULL
  /\ procs[p].thread.status = "open" /\ procs[q].thread.status = "open"
  /\ isCounselor(procs[p].user) \/ procs[p].thread.studentId = procs[p].user
  /\ threads[procs[p].tid].status = "open"

\* C8: two sendMessage calls with the same thread, sender and non-empty
\* clientId store exactly one message with that key and both return
\* success with that same message
C8_SameClientIdSameMessage ==
  /\ \A i, j \in 1..Len(messages) :
       ( /\ messages[i].clientId # NULL
         /\ messages[i].threadId = messages[j].threadId
         /\ messages[i].senderId = messages[j].senderId
         /\ messages[i].clientId = messages[j].clientId ) => i = j
  /\ \A p, q \in Procs :
       SameCall(p, q) =>
         /\ procs[p].status = 201 /\ procs[q].status = 201
         /\ procs[p].ret = procs[q].ret
         /\ procs[p].ret \in MsgsOf(procs[p].tid, procs[p].user)

\* C9: a sendMessage retry whose clientId matches a stored message does
\* not increment the recipient's counter or unassignedUnread again and
\* does not change lastMessage
C9_RetryLeavesThread ==
  [][\A p \in Procs :
       (Steps(p, "send_summary", "done") /\ procs[p].dup)
       => LET i == procs[p].tid IN
          /\ threads'[i].unassignedUnread = threads[i].unassignedUnread
          /\ threads'[i].lastMessage = threads[i].lastMessage
          /\ \A u \in Users \ {procs[p].user} :
               Unread(threads'[i], u) = Unread(threads[i], u)]_vars

\* the string has a character that is neither blank nor control
HasVisible(v) == \E k \in 1..Len(v) : v[k].c = "ch"

\* number of characters left after stripping controls and trimming
CleanLength(v) == TextLen(Trim(StripControl(v)))

\* C10 as stated: sendMessage with text longer than 2000 characters, or
\* empty after stripping and trimming, is rejected with 400, creates no
\* message and does not modify the thread
C10_LongOrEmptyRejected ==
  [][\A p \in Procs :
       LET r == procs'[p] IN
       ( /\ StartsSend(p) /\ r.tid \in ThreadIds
         /\ TextLen(r.body.text) > TextLimit \/ ~HasVisible(r.body.text) )
       => /\ r.pc = "done" /\ r.status = 400
          /\ messages' = messages /\ threads' = threads]_vars

\* C10 amended: text that is empty after stripping and trimming is
\* rejected with 400 and nothing is written; text that is longer than 2000
\* characters after that cleaning is not rejected but cut to its first 2000
\* characters, and every stored message text has 1..2000 characters
C10_EmptyRejectedLongTruncated ==
  /\ [](\A i \in 1..Len(messages) :
          TextLen(messages[i].text) \in 1..TextLimit)
  /\ [][\A p \in Procs :
         LET r == procs'[p] IN
         (StartsSend(p) /\ r.tid \in ThreadIds)
         => /\ ~HasVisible(r.body.text)
                => /\ r.pc = "done" /\ r.status = 400
                   /\ messages' = messages /\ threads' = threads
            /\ HasVisible(r.body.text)
                => /\ TextLen(r.text) \in 1..TextLimit
                   /\ CleanLength(r.body.text) > TextLimit => TextLen(r.text) = TextLimit
                   /\ r.status = 400 => threads[r.tid].status = "closed"]_vars

\* a stored, returned message of 2000 characters whose request text was longer
C10_Witness ==
  \E p \in Procs :
    /\ procs[p].op = "sendMessage" /\ procs[p].pc = "done"
    /\ procs[p].status = 201
    /\ CleanLength(procs[p].body.text) > TextLimit
    /\ procs[p].ret \in 1..Len(messages)
    /\ TextLen(messages[procs[p].ret].text) = TextLimit

\* C11: every message is stored while its thread is open: once a thread is
\* closed no step stores a message of that thread or writes its lastMessage,
\* lastMessageAt, unreadCounts or unassignedUnread, under every interleaving
\* of sendMessage and closeThread
C11_NoWriteAfterClose ==
  [][\A i \in ThreadIds :
       threads[i].status = "closed" =>
         /\ \A k \in 1..Len(messages') : k > Len(messages) => messages'[k].threadId # i
         /\ threads'[i].lastMessage = threads[i].lastMessage
         /\ threads'[i].lastMessageAt = threads[i].lastMessageAt
         /\ threads'[i].unreadCounts = threads[i].unreadCounts
         /\ threads'[i].unassignedUnread = threads[i].unassignedUnread]_vars

\* the request that slot p starts in this step is a closeThread
StartsClose(p) ==
  Free(p) /\ procs'[p] # procs[p] /\ procs'[p].op = "closeThread"

\* the caller is the thread's student or its assigned counselor
MayClose(t, u) == u = t.studentId \/ (t.counselorId # NULL /\ u = t.counselorId)

C17_ErrorWritesNothing ==
  \A p \in Procs :
    (procs[p].op = "sendMessage" /\ procs[p].pc = "done" /\ procs[p].status >= 400)
    => /\ ~procs[p].lockedNow
       /\ ~procs[p].claimedNow
       /\ procs[p].msgDoc = 0

\* C18: the keys of unreadCounts are among studentId and counselorId, and
\* every counter is a non-negative integer
C18_UnreadKeysAreParticipants ==
  \A i \in ThreadIds :
    /\ DOMAIN threads[i].unreadCounts
         \subseteq ({threads[i].studentId, threads[i].counselorId} \ {NULL})
    /\ \A k \in DOMAIN threads[i].unreadCounts : threads[i].unreadCounts[k] \in Nat
    /\ threads[i].unassignedUnread \in Nat

\* C12: closeThread on an open thread by an authorized caller sets status
\* closed, closedAt, closedBy = caller, unassignedUnread = 0 and every entry
\* of unreadCounts to 0; on an already closed thread it changes nothing and
\* returns status closed (200)
C12_CloseZeroesCounters ==
  [][\A p \in Procs :
       /\ (Steps(p, "close_write", "done") /\ threads[procs[p].tid].status = "open")
          => LET t == threads'[procs[p].tid] IN
             /\ procs'[p].status = 200
             /\ t.status = "closed"
             /\ t.closedAt = Now /\ t.closedAt # NoDate
             /\ t.closedBy = procs[p].user
             /\ t.unassignedUnread = 0
             /\ \A k \in DOMAIN t.unreadCounts : t.unreadCounts[k] = 0
       /\ ( /\ StartsClose(p) /\ procs'[p].tid \in ThreadIds
            /\ threads[procs'[p].tid].status = "closed"
            /\ MayClose(threads[procs'[p].tid], procs'[p].user) )
          => /\ procs'[p].pc = "done" /\ procs'[p].status = 200
             /\ threads' = threads]_vars

\* the studentId a counselor may see: the student's id when the thread is
\* not anonymous and is assigned to that counselor, null otherwise
VisibleStudent(doc, viewer) ==
  IF ~doc.anonymous /\ doc.counselorId = viewer THEN doc.studentId ELSE NULL

\* C14: getThread and listThreads return studentId = null to a counselor
\* unless the thread is not anonymous and its counselorId is the viewer; an
\* anonymous thread stays masked for its assigned counselor
C14_StudentMaskedForCounselors ==
  \A p \in Procs :
    LET r == procs[p] IN
    (r.pc = "done" /\ r.status = 200 /\ isCounselor(r.user))
    => /\ r.op = "getThread" => r.item.studentId = VisibleStudent(r.thread, r.user)
       /\ r.op = "listThreads" =>
            /\ \A f \in r.found :
                 [tid |-> f.tid,
                  item |-> [studentId |-> VisibleStudent(f.doc, r.user),
                            counselorId |-> f.doc.counselorId,
                            anonymous |-> f.doc.anonymous]] \in r.list
            /\ Cardinality(r.list) = Cardinality(r.found)

\* the assigned counselor has read an anonymous thread and got no studentId
C14_Witness ==
  \E p \in Procs :
    /\ procs[p].op = "getThread" /\ procs[p].pc = "done" /\ procs[p].status = 200
    /\ procs[p].thread.anonymous
    /\ procs[p].thread.counselorId = procs[p].user
    /\ procs[p].item.studentId = NULL
    /\ procs[p].item.counselorId = procs[p].user

\* C15: getThread by role: a Student viewer who is not the thread's
\* student gets 403, a Counselor viewer and an Admin viewer read any
\* existing thread (200), an unknown thread id gives 404
C15_GetThreadAccessByRole ==
  \A p \in Procs :
    LET r == procs[p] IN
    (r.op = "getThread" /\ r.pc = "done" /\ r.tid # InvalidId)
    => IF r.tid \notin ThreadIds THEN r.status = 404
       ELSE /\ (Role(r.user) = "Student" /\ r.user # threads[r.tid].studentId)
                 => r.status = 403
            /\ Role(r.user) \in {"Counselor", "Admin"} => r.status = 200

\* C19: a failure of the realtime publication never changes the outcome of
\* ensureThread, sendMessage, markRead or closeThread: with getIO throwing
\* the step that publishes still commits its write and answers with the
\* same status, nothing is emitted, and the finished request takes no
\* further step (its record changes only when a new request takes the slot)
C19_PublishFailureSwallowed ==
  [][\A p \in Procs :
       LET r == procs[p]
           q == procs'[p]
       IN
       /\ Steps(p, "ensure_create", "done")
          => /\ q.status = 201 /\ Len(threads') = Len(threads) + 1
             /\ q.pub = IF ioInstance # NoServer THEN EnsureEvents(Len(threads')) ELSE <<>>
       /\ Steps(p, "send_summary", "done")
          => /\ q.status = 201 /\ q.ret = r.msgDoc
             /\ threads'[r.tid].lastMessage = r.text
             /\ q.pub = IF ioInstance # NoServer THEN SendEvents(r, threads'[r.tid]) ELSE <<>>
       /\ Steps(p, "mark_write", "done")
          => /\ q.status = 200 /\ Unread(threads'[r.tid], r.user) = 0
             /\ q.pub = IF ioInstance # NoServer THEN MarkEvents(r) ELSE <<>>
       /\ Steps(p, "close_write", "done")
          => /\ q.status = 200 /\ threads'[r.tid].status = "closed"
             /\ q.pub = IF ioInstance # NoServer THEN CloseEvents(r) ELSE <<>>
       /\ (r.pc = "done" /\ nreq' = nreq) => q = r]_vars

\* the socket server does not exist, a send has stored its message and
\* answered 201, a close has answered 200, and neither has published
C19_Witness ==
  /\ ioInstance = NoServer
  /\ \E p, q \in Procs :
       /\ procs[p].op = "sendMessage" /\ procs[p].pc = "done"
       /\ procs[p].status = 201 /\ procs[p].pub = <<>>
       /\ procs[p].ret \in MsgsOf(procs[p].tid, procs[p].user)
       /\ threads[procs[p].tid].lastMessage = procs[p].text
       /\ procs[q].op = "closeThread" /\ procs[q].pc = "done"
       /\ procs[q].status = 200 /\ procs[q].pub = <<>>
       /\ threads[procs[q].tid].status = "closed"

\* C20: the connections in a thread's channel belong to the thread's
\* current participants: whenever message:new is emitted to thread:<id> of
\* a thread claimed by counselor A, every connection that receives it is of
\* a user in the thread's participants, so it never reaches a counselor B,
\* also not a B who joined the channel while the thread was unclaimed
C20_ThreadChannelOnlyParticipants ==
  [][\A p \in Procs :
       ( /\ Steps(p, "send_summary", "done") /\ procs'[p].pub # <<>>
         /\ threads'[procs[p].tid].counselorId # NULL )
       => \A u \in Receivers(ThreadRoom(procs[p].tid)) :
            u \in threads'[procs[p].tid].participants]_vars

(* ------------------------- role channel payloads ----------------------- *)
\* the events a finished request emitted to role:counselor
RoleEvents(r) == {r.pub[k] : k \in {j \in 1..Len(r.pub) : r.pub[j].room = RoleRoom}}

\* C21: every event emitted to role:counselor is thread:created,
\* thread:update or thread:claimed and carries only the thread id and, for
\* thread:claimed, the id of the claiming counselor: no message and no
\* student id
C21_RoleEventsCarryIdsOnly ==
  \A p \in Procs :
    \A e \in RoleEvents(procs[p]) :
      /\ e.name \in {"thread:created", "thread:update", "thread:claimed"}
      /\ e.threadId = procs[p].tid \/ procs[p].op = "ensureThread"
      /\ e.threadId \in ThreadIds
      /\ e.message = 0
      /\ e.userId = NULL
      /\ e.counselorId = IF e.name = "thread:claimed" THEN procs[p].user ELSE NULL
      /\ e.name = "thread:claimed" => isCounselor(procs[p].user) /\ procs[p].claimedNow

\* a claiming send that stored its message has emitted thread:update and
\* thread:claimed to the role channel
C21_Witness ==
  \E p \in Procs :
    /\ procs[p].op = "sendMessage" /\ procs[p].pc = "done" /\ procs[p].claimedNow
    /\ procs[p].ret \in MsgsOf(procs[p].tid, procs[p].user)
    /\ \E e \in RoleEvents(procs[p]) :
         e.name = "thread:claimed" /\ e.counselorId = procs[p].user
    /\ \E e \in RoleEvents(procs[p]) : e.name = "thread:update"

(* ---------------------------- thread life cycle ------------------------ *)
\* the request that slot p starts in this step is an ensureThread
StartsEnsure(p) ==
  Free(p) /\ procs'[p] # procs[p] /\ procs'[p].op = "ensureThread"

\* C22: status only moves from open to closed: no step of ensureThread,
\* sendMessage, markRead or closeThread sets a closed thread back to open or
\* removes a thread; an ensureThread of a student whose threads are all
\* closed goes to the create branch, and the create appends a new open
\* thread of that student and leaves the closed ones as they are
C22_ClosedStaysClosed ==
  [][/\ Len(threads') >= Len(threads)
     /\ \A i \in ThreadIds :
          /\ threads[i].status \in {"open", "closed"}
          /\ threads[i].status = "closed" => threads'[i].status = "closed"
     /\ \A p \in Procs :
          /\ ( /\ StartsEnsure(p) /\ ~isCounselor(procs'[p].user)
               /\ \A i \in ThreadIds :
                    threads[i].studentId = procs'[p].user => threads[i].status = "closed" )
             => procs'[p].pc = "ensure_create"
          /\ Steps(p, "ensure_create", "done")
             => /\ procs'[p].status = 201
                /\ Len(threads') = Len(threads) + 1
                /\ procs'[p].ret = Len(threads')
                /\ threads'[Len(threads')].status = "open"
                /\ threads'[Len(threads')].studentId = procs[p].user
                /\ \A i \in ThreadIds : threads'[i] = threads[i]]_vars

\* a student's thread is closed and an ensureThread of that student has
\* created a second thread, which is open
C22_Witness ==
  \E p \in Procs, i, j \in ThreadIds :
    /\ procs[p].op = "ensureThread" /\ procs[p].pc = "done"
    /\ procs[p].status = 201 /\ procs[p].ret = j
    /\ i < j
    /\ threads[i].studentId = procs[p].user /\ threads[i].status = "closed"
    /\ threads[j].studentId = procs[p].user /\ threads[j].status = "open"

(* --------------------------- counters and state ------------------------ *)
\* C23: in every reachable state a thread whose counselorId is set has
\* unassignedUnread = 0, also when a student's send read the thread before
\* the claim and writes its counter after it
C23_ClaimedHasNoUnassignedUnread ==
  \A i \in ThreadIds :
    threads[i].counselorId # NULL => threads[i].unassignedUnread = 0

\* C24: in every reachable state a closed thread has unassignedUnread = 0
\* and every unreadCounts entry 0, also when a send or a claim that started
\* before the close writes after it
C24_ClosedHasNoUnread ==
  \A i \in ThreadIds :
    threads[i].status = "closed" =>
      /\ threads[i].unassignedUnread = 0
      /\ \A k \in DOMAIN threads[i].unreadCounts : threads[i].unreadCounts[k] = 0

(* ------------------------ messages without clientId -------------------- *)
\* C25: a send without clientId that reaches Message.create with a text
\* the schema accepts always stores a new message, distinct from every
\* stored one, and goes on to succeed, however many messages without
\* clientId the sender already has in the thread
C25_NoClientIdAlwaysStored ==
  [][\A p \in Procs :
       LET r == procs[p] IN
       ( /\ r.pc = "send_create" /\ procs'[p] # r
         /\ ClientIdOf(r.body.clientId) = NULL
         /\ SchemaTextValid(SchemaText(r.text)) )
       => /\ Len(messages') = Len(messages) + 1
          /\ messages'[Len(messages')].senderId = r.user
          /\ messages'[Len(messages')].threadId = r.tid
          /\ procs'[p].pc = "send_summary"
          /\ procs'[p].msgDoc = Len(messages')]_vars

(* ------------------------------- markRead ------------------------------ *)
\* the request that slot p starts in this step is a markRead
StartsMark(p) ==
  Free(p) /\ procs'[p] # procs[p] /\ procs'[p].op = "markRead"

\* C26: a step of markRead changes nothing but the caller's own
\* unreadCounts entry of the thread, which it sets to 0: the other entries,
\* unassignedUnread, lastMessage, status, the assignment, the other threads
\* and the messages are unchanged; a markRead on a closed thread returns ok
\* and changes nothing
C26_MarkReadOwnEntryOnly ==
  [][\A p \in Procs :
       LET r == procs[p]
           q == procs'[p]
       IN
       /\ (q # r /\ q.op = "markRead") => messages' = messages
       /\ StartsMark(p) => threads' = threads
       /\ ( /\ StartsMark(p) /\ q.tid \in ThreadIds
            /\ threads[q.tid].status = "closed" )
          => q.pc = "done" /\ q.status = 200
       /\ Steps(p, "mark_write", "done")
          => LET old == threads[r.tid]
                 new == threads'[r.tid]
             IN /\ q.status = 200
                /\ \A i \in ThreadIds : i # r.tid => threads'[i] = threads[i]
                /\ Len(threads') = Len(threads)
                /\ [new EXCEPT !.unreadCounts = <<>>] = [old EXCEPT !.unreadCounts = <<>>]
                /\ DOMAIN new.unreadCounts = DOMAIN old.unreadCounts \cup {r.user}
                /\ new.unreadCounts[r.user] = 0
                /\ \A k \in DOMAIN old.unreadCounts :
                     k # r.user => new.unreadCounts[k] = old.unreadCounts[k]]_vars

\* a student's markRead has returned ok on an open claimed thread that
\* holds a message of its counselor, and the student's own entry is 0
C26_Witness ==
  \E p \in Procs :
    LET r == procs[p]
        t == threads[r.tid]
    IN /\ r.op = "markRead" /\ r.pc = "done" /\ r.status = 200
       /\ r.tid \in ThreadIds
       /\ t.status = "open" /\ t.studentId = r.user
       /\ t.counselorId # NULL
       /\ MsgsOf(r.tid, t.counselorId) # {}
       /\ Unread(t, r.user) = 0
       /\ t.lastMessage # <<>>

(* --------------------------- counters of a send ------------------------- *)
\* the counters of a thread as one function: the unreadCounts entries of
\* the users and unassignedUnread
Counters(t) ==
  [k \in Users \cup {"unassigned"} |->
     IF k = "unassigned" THEN t.unassignedUnread ELSE Unread(t, k)]

\* the counter a send of the user to the thread has to increment
Recipient(t, u) ==
  IF isCounselor(u) THEN t.studentId
  ELSE IF t.counselorId # NULL THEN t.counselorId
  ELSE "unassigned"

\* C27: the counter write of a successful sendMessage sets the sender's own
\* entry to 0, adds exactly 1 to exactly one recipient counter (the
\* student's entry when the sender is a counselor; the assigned counselor's
\* entry, or unassignedUnread when the thread is unclaimed, when the sender
\* is the student) and leaves the other counters as they are; no step
\* lowers a counter other than to 0
C27_SendCountsOneRecipient ==
  [][/\ \A i \in ThreadIds, k \in Users \cup {"unassigned"} :
          Counters(threads'[i])[k] < Counters(threads[i])[k]
            => Counters(threads'[i])[k] = 0
     /\ \A p \in Procs :
          Steps(p, "send_summary", "done")
          => LET r == procs[p]
                 old == Counters(threads[r.tid])
                 new == Counters(threads'[r.tid])
                 to == Recipient(threads[r.tid], r.user)
             IN /\ procs'[p].status = 201
                /\ new[r.user] = 0
                /\ new[to] = old[to] + 1
                /\ \A k \in DOMAIN old : k \notin {r.user, to} => new[k] = old[k]]_vars

(* ----------------------- assignment and participants ------------------- *)
\* C28: in every thread claimedAt is set exactly when counselorId is set,
\* participants holds the student, holds the counselor once one is
\* assigned, and holds nobody else: a counselor whose claim lost the race
\* or whose send was refused is not in it
C28_ParticipantsAreStudentAndCounselor ==
  \A i \in ThreadIds :
    LET t == threads[i] IN
    /\ (t.claimedAt # NoDate) <=> (t.counselorId # NULL)
    /\ t.studentId \in t.participants
    /\ t.counselorId # NULL => t.counselorId \in t.participants
    /\ t.participants \subseteq ({t.studentId, t.counselorId} \ {NULL})

\* a thread is claimed, its participants are its student and its counselor,
\* and a send of another counselor on it has ended with 409 or 403
C28_Witness ==
  \E p \in Procs :
    LET r == procs[p]
        t == threads[r.tid]
    IN /\ r.op = "sendMessage" /\ r.pc = "done" /\ isCounselor(r.user)
       /\ r.status \in {403, 409}
       /\ r.tid \in ThreadIds
       /\ t.counselorId \notin {NULL, r.user}
       /\ t.claimedAt # NoDate
       /\ t.participants = {t.studentId, t.counselorId}

(* ---------------------------- identity fields -------------------------- *)
\* C29: in every thread identityMode is "anonymous" exactly when anonymous
\* is true, and identityLockedAt is set exactly when identityLocked is true,
\* under every interleaving of ensureThread and sendMessage
C29_IdentityFieldsAgree ==
  \A i \in ThreadIds :
    LET t == threads[i] IN
    /\ t.identityMode \in {"anonymous", "student"}
    /\ (t.identityMode = "anonymous") <=> t.anonymous
    /\ (t.identityLockedAt # NoDate) <=> t.identityLocked

\* a student's send has locked a thread as anonymous
C29_Witness ==
  \E p \in Procs :
    LET r == procs[p]
        t == threads[r.tid]
    IN /\ r.op = "sendMessage" /\ r.pc = "done" /\ r.status = 201 /\ r.lockedNow
       /\ t.identityLocked /\ t.identityLockedAt # NoDate
       /\ t.anonymous /\ t.identityMode = "anonymous"

\* the identity fields of a thread
Identity(t) ==
  << t.identityLocked, t.identityLockedAt, t.anonymous, t.identityMode >>

\* C30: no step of a counselor's sendMessage (claiming, replying or
\* refused) changes identityLocked, identityLockedAt, anonymous or
\* identityMode of any thread; a locked thread has a stored message of its
\* student or a student's send that wrote the lock and is still running,
\* so a thread whose only messages are a counselor's is unlocked
C30_CounselorSendKeepsIdentity ==
  [][/\ \A p \in Procs :
          ( /\ procs'[p] # procs[p]
            /\ procs'[p].op = "sendMessage" /\ isCounselor(procs'[p].user) )
          => \A i \in ThreadIds : Identity(threads'[i]) = Identity(threads[i])
     /\ \A i \in ThreadIds :
          threads[i].identityLocked
          => \/ MsgsOf(i, threads[i].studentId) # {}
             \/ \E p \in Procs :
                  /\ procs[p].op = "sendMessage" /\ procs[p].tid = i
                  /\ procs[p].user = threads[i].studentId
                  /\ procs[p].lockedNow /\ procs[p].pc # "done"]_vars

\* a counselor's send has claimed a thread and stored its message, the
\* thread holds no message of its student and is not locked
C30_Witness ==
  \E p \in Procs :
    LET r == procs[p]
        t == threads[r.tid]
    IN /\ r.op = "sendMessage" /\ r.pc = "done" /\ r.status = 201
       /\ isCounselor(r.user) /\ r.claimedNow
       /\ r.ret \in MsgsOf(r.tid, r.user)
       /\ MsgsOf(r.tid, t.studentId) = {}
       /\ ~t.identityLocked /\ t.identityLockedAt = NoDate
       /\ t.counselorId = r.user

(* ------------------------------ ensureThread ---------------------------- *)
\* the open threads of the caller when slot p starts an ensureThread
OpenBefore(p) ==
  {i \in ThreadIds : threads[i].studentId = procs'[p].user /\ threads[i].status = "open"}

\* C31: an ensureThread of a student who has an open thread returns that
\* thread and creates none; when the thread it found is unlocked and the
\* body names a boolean different from its anonymous flag, the call sets
\* anonymous and identityMode to the requested value and returns 200; when
\* the thread it found is locked, or the body names no different value, the
\* call changes nothing; a counselor gets 403 and nothing is created
C31_EnsureReturnsOpenThread ==
  [][\A p \in Procs :
       LET r == procs[p]
           q == procs'[p]
           req == q.body.anonymous
       IN
       /\ (q # r /\ q.op = "ensureThread" /\ q.pc # "done" /\ q.pc # "ensure_create")
          => Len(threads') = Len(threads)
       /\ StartsEnsure(p) => threads' = threads
       /\ (StartsEnsure(p) /\ isCounselor(q.user))
          => q.pc = "done" /\ q.status = 403
       /\ (StartsEnsure(p) /\ ~isCounselor(q.user) /\ OpenBefore(p) # {})
          => /\ q.tid \in OpenBefore(p)
             /\ IF /\ ~threads[q.tid].identityLocked
                   /\ IsBoolean(req)
                   /\ threads[q.tid].anonymous # Truthy(req)
                THEN q.pc = "ensure_update"
                ELSE q.pc = "done" /\ q.status = 200 /\ q.ret = q.tid
       /\ r.pc = "ensure_update" /\ q # r
          => /\ q.pc = "done" /\ q.status = 200 /\ q.ret = r.tid
             /\ Len(threads') = Len(threads)
             /\ threads'[r.tid].anonymous = Truthy(r.body.anonymous)
             /\ threads'[r.tid].identityMode =
                  (IF Truthy(r.body.anonymous) THEN "anonymous" ELSE "student")
             /\ \A i \in ThreadIds : i # r.tid => threads'[i] = threads[i]]_vars

\* an ensureThread naming anonymous = true has returned the student's one
\* thread, which was created with anonymous = false and is now anonymous
\* and still unlocked
C31_Witness ==
  \E p \in Procs :
    LET r == procs[p] IN
    /\ r.op = "ensureThread" /\ r.pc = "done" /\ r.status = 200
    /\ r.body.anonymous = JTrue
    /\ Len(threads) = 1 /\ r.ret = 1
    /\ threads[1].studentId = r.user /\ threads[1].status = "open"
    /\ threads[1].anonymous /\ threads[1].identityMode = "anonymous"
    /\ ~threads[1].identityLocked

(* ------------------------------- close once ----------------------------- *)
\* the finished request emitted thread:closed
EmitsClosed(r) == \E k \in 1..Len(r.pub) : r.pub[k].name = "thread:closed"

\* C32: closedAt and closedBy of a thread are written at most once and
\* thread:closed is emitted at most once per thread: once a thread is
\* closed no step changes closedAt or closedBy, and a closeThread that
\* finishes on an already closed thread emits no thread:closed, also when
\* it read the thread open
C32_ClosedOnce ==
  [][/\ \A i \in ThreadIds :
          threads[i].status = "closed"
          => /\ threads'[i].closedAt = threads[i].closedAt
             /\ threads'[i].closedBy = threads[i].closedBy
     /\ \A p \in Procs :
          ( /\ procs[p].op = "closeThread" /\ procs[p].pc # "done"
            /\ procs'[p].pc = "done"
            /\ threads[procs[p].tid].status = "closed" )
          => ~EmitsClosed(procs'[p])]_vars

(* ------------------------------ thread:claimed --------------------------- *)
\* the thread:claimed events a request emitted
ClaimedEvents(r) == {k \in 1..Len(r.pub) : r.pub[k].name = "thread:claimed"}

\* C33: a sendMessage emits thread:claimed exactly when it performed the
\* claim, once, to the role channel and with the claiming counselor's id;
\* the claim is performed only on a thread without counselor, so at most
\* one call per thread performs it; a send that lost the claim race or
\* replied to a claimed thread, and every other operation, emits none
C33_ClaimedEmittedByClaimOnly ==
  [][/\ \A p \in Procs :
          LET r == procs[p]
              q == procs'[p]
          IN /\ (r.pc # "done" /\ q.pc = "done")
                => /\ (ClaimedEvents(q) # {}) <=> (r.op = "sendMessage" /\ r.claimedNow)
                   /\ Cardinality(ClaimedEvents(q)) <= 1
                   /\ \A k \in ClaimedEvents(q) :
                        /\ q.pub[k].room = RoleRoom
                        /\ q.pub[k].threadId = r.tid
                        /\ q.pub[k].counselorId = r.user
                        /\ threads'[r.tid].counselorId = r.user
             /\ (q.claimedNow /\ ~r.claimedNow)
                => /\ threads[q.tid].counselorId = NULL
                   /\ threads'[q.tid].counselorId = q.user
                   /\ isCounselor(q.user)
     /\ \A p, q \in Procs :
          (p # q /\ procs[p].claimedNow /\ procs[q].claimedNow)
          => procs[p].tid # procs[q].tid]_vars

(* ---------------- specification: connections and joins ----------------- *)
\* handshake tokens of the client of user u: none, one that jwt.verify
\* rejects, one whose payload has no id, one of a user that is not in the
\* store, and a valid one of u
NoToken == ""
Tokens(u) == {NoToken, "bad", "noid", "ghost", u}

\* the stored users
Accounts == Users \cup OtherStudents \cup Admins

\* socket.js lines 22-46: the error authSocket passes to next, or "ok"
authSocket(tok) ==
  IF tok = NoToken THEN "NO_TOKEN"
  ELSE IF tok = "bad" THEN "AUTH_FAILED"
  ELSE IF tok = "noid" THEN "BAD_TOKEN"
  ELSE IF tok \notin Accounts THEN "USER_NOT_FOUND"
  ELSE "ok"

\* a handshake that authSocket refused: no connection, no channel
Rejected(tok) == [NoSocket EXCEPT !.pc = "rejected", !.tok = tok]

\* lines 63-75: the handshake of a client with a token; the connection
\* handler runs for an accepted one only
Handshake(u, tok) ==
  /\ ioInstance # NoServer
  /\ ~socks[u].conn
  /\ socks' = [socks EXCEPT ![u] =
                  IF authSocket(tok) = "ok" THEN Connected(tok) ELSE Rejected(tok)]
  /\ UNCHANGED << threads, messages, procs, nreq, ioInstance >>

HandshakeSocket == \E u \in SocketUsers : \E tok \in Tokens(u) : Handshake(u, tok)

\* the counselors reply to, and so claim, the threads of two students while
\* the connections of s1 and c2 come, join and go; the owner may close
SocketSenders == Counselors

SendRequestSocket(p) ==
  /\ Accept(p)
  /\ \E u \in SocketSenders, t \in TargetIds, b \in RealtimeBodies : SendLoad(p, u, t, b)

CloseRequestSocket(p) == Accept(p) /\ \E t \in TargetIds : CloseLoad(p, "s1", t)

InitSockets ==
  /\ threads = << NewThread("s1", FALSE), NewThread("s2", FALSE) >>
  /\ messages = <<>>
  /\ procs = [p \in Procs |-> Idle]
  /\ nreq = 0
  /\ ioInstance = initSocket(NoServer)
  /\ socks = [u \in SocketUsers |-> NoSocket]

NextSocket ==
  \/ ConnectSocket
  \/ AutoJoinSocket
  \/ ThreadJoinSocket
  \/ DisconnectSocket
  \/ \E p \in Procs : SendRequestSocket(p)
  \/ \E p \in Procs : SendClaim(p)
  \/ \E p \in Procs : SendJoin(p)
  \/ \E p \in Procs : SendCreate(p)
  \/ \E p \in Procs : SendSummary(p)
  \/ \E p \in Procs : CloseRequestSocket(p)
  \/ \E p \in Procs : CloseWrite(p)

SpecSocket == InitSockets /\ [][NextSocket]_vars

(* ------------------- specification: handshakes ------------------------- *)
\* clients present good and bad tokens while counselor c2 replies to, and
\* so becomes a participant of, the threads
SendRequestHandshake(p) ==
  /\ Accept(p)
  /\ \E t \in TargetIds, b \in RealtimeBodies : SendLoad(p, "c2", t, b)

NextHandshake ==
  \/ HandshakeSocket
  \/ AutoJoinSocket
  \/ DisconnectSocket
  \/ \E p \in Procs : SendRequestHandshake(p)
  \/ \E p \in Procs : SendClaim(p)
  \/ \E p \in Procs : SendJoin(p)
  \/ \E p \in Procs : SendCreate(p)
  \/ \E p \in Procs : SendSummary(p)

SpecHandshake == InitSockets /\ [][NextHandshake]_vars

(* -------------------------------- thread:join ---------------------------- *)
\* the user may be given membership of thread:<tid>
Authorized(u, tid) ==
  LET t == threads[tid] IN
  IF Role(u) = "Counselor"
  THEN (t.counselorId = NULL /\ t.status = "open") \/ t.counselorId = u
  ELSE t.status = "open" /\ u \in t.participants

\* C34: a thread:join request changes a connection only by adding the
\* channel of one existing thread the user is authorized for: a counselor
\* for a thread that is unclaimed and open or claimed by that counselor,
\* any other user for an open thread whose participants hold the user;
\* every other request (unknown thread, no authorization) joins nothing,
\* and no request changes the store or emits an event
C34_JoinOnlyWhenAuthorized ==
  [][\A u \in SocketUsers :
       ( /\ socks[u].pc = "ready" /\ socks'[u].pc = "ready"
         /\ socks'[u] # socks[u] )
       => /\ \E tid \in ThreadIds :
               /\ Authorized(u, tid)
               /\ socks'[u] = [socks[u] EXCEPT !.rooms = @ \cup {tid}]
          /\ threads' = threads /\ messages' = messages /\ procs' = procs]_vars

\* the connection of counselor c2 has joined the channel of an open
\* unclaimed thread by thread:join and is not in the channel of a thread
\* claimed by another counselor; the connection of student s1 is in the
\* channel of its own thread and not in that of the other student's
C34_Witness ==
  /\ socks["c2"].pc = "ready" /\ socks["s1"].pc = "ready"
  /\ \E i, j \in ThreadIds :
       /\ threads[i].counselorId = NULL /\ threads[i].status = "open"
       /\ i \in socks["c2"].rooms
       /\ threads[j].counselorId = "c1"
       /\ j \notin socks["c2"].rooms
  /\ \E i, j \in ThreadIds :
       /\ threads[i].studentId = "s1" /\ i \in socks["s1"].rooms
       /\ threads[j].studentId # "s1" /\ j \notin socks["s1"].rooms

(* -------------------------------- handshake ------------------------------ *)
\* the token is one of a stored user
ValidToken(tok) == tok \in Accounts

\* C35: a handshake without token, with an invalid token or with the token
\* of an unknown user is rejected and leaves the client without connection
\* and without channel; an accepted handshake joins user:<id>, joins
\* role:counselor exactly when the user's role is counselor, and its
\* auto-join adds thread:<id> of exactly the threads whose participants
\* contain the user
C35_HandshakeAndAutoJoin ==
  [][\A u \in SocketUsers :
       LET a == socks[u]
           b == socks'[u]
       IN
       /\ (~a.conn /\ b # a)
          => IF ValidToken(b.tok)
             THEN /\ b.conn /\ b.pc = "auto" /\ b.tok = u
                  /\ UserRoom(u) \in b.chans
                  /\ (RoleRoom \in b.chans) <=> (Role(u) = "Counselor")
                  /\ b.chans \subseteq {UserRoom(u), RoleRoom}
                  /\ b.rooms = {}
             ELSE /\ ~b.conn /\ b.pc = "rejected"
                  /\ b.chans = {} /\ b.rooms = {}
                  /\ \A k \in {"thread", "user", "role"}, i \in ThreadIds :
                       u \notin Receivers([kind |-> k, tid |-> i, user |-> u])
       /\ (a.pc = "auto" /\ b.pc = "ready")
          => /\ b.conn /\ b.chans = a.chans
             /\ b.rooms = {i \in ThreadIds : u \in threads[i].participants}
       /\ (a.conn /\ b.conn) => b.chans = a.chans /\ a.rooms \subseteq b.rooms]_vars

\* the connection of counselor c2 is in user:c2, in role:counselor and in
\* the channel of a thread it participates in; the client of student s1
\* presented the token of an unknown user and has no connection
C35_Witness ==
  /\ socks["c2"].conn /\ socks["c2"].pc = "ready"
  /\ socks["c2"].chans = {UserRoom("c2"), RoleRoom}
  /\ \E i \in ThreadIds :
       "c2" \in threads[i].participants /\ i \in socks["c2"].rooms
  /\ ~socks["s1"].conn /\ socks["s1"].pc = "rejected" /\ socks["s1"].tok = "ghost"

(* ------------------------------- lastMessage ----------------------------- *)
\* the stored messages of a thread
MsgsIn(tid) == {i \in 1..Len(messages) : messages[i].threadId = tid}

\* no sendMessage on the thread is between its load and its response
NoSendRunning(tid) ==
  \A p \in Procs :
    (procs[p].op = "sendMessage" /\ procs[p].tid = tid) => procs[p].pc = "done"

\* C36: once the sendMessage calls on a thread have returned, lastMessage
\* and lastMessageAt of the thread are the text and createdAt of its stored
\* message with the greatest createdAt, also after concurrent sends
C36_LastMessageIsLatest ==
  \A tid \in ThreadIds :
    (NoSendRunning(tid) /\ MsgsIn(tid) # {})
    => \E i \in MsgsIn(tid) :
         /\ \A j \in MsgsIn(tid) : messages[j].createdAt <= messages[i].createdAt
         /\ threads[tid].lastMessageAt = messages[i].createdAt
         /\ threads[tid].lastMessage = messages[i].text

(* ------------------------------- listThreads ----------------------------- *)
\* the request that slot p starts in this step is a listThreads
StartsList(p) ==
  Free(p) /\ procs'[p] # procs[p] /\ procs'[p].op = "listThreads"

\* the threads listThreads has to return to the viewer
Listed(viewer) ==
  IF Role(viewer) = "Counselor"
  THEN ThreadIds
  ELSE {i \in ThreadIds : threads[i].studentId = viewer /\ threads[i].status = "open"}

\* C37: listThreads reads for a student exactly the threads with studentId
\* = that student and status open, and for a counselor every thread, open
\* or closed; the response has one item per thread read, with studentId
\* masked for a counselor as in getThread (null unless the thread is not
\* anonymous and assigned to the viewer) and unmasked for the student
C37_ListByRole ==
  [][\A p \in Procs :
       LET r == procs[p]
           q == procs'[p]
       IN
       /\ (StartsList(p) /\ Role(q.user) \in {"Student", "Counselor"})
          => /\ {f.tid : f \in q.found} = Listed(q.user)
             /\ \A f \in q.found :
                  /\ f.doc.studentId = threads[f.tid].studentId
                  /\ f.doc.counselorId = threads[f.tid].counselorId
                  /\ f.doc.status = threads[f.tid].status
                  /\ f.doc.anonymous = threads[f.tid].anonymous
             /\ threads' = threads
       /\ ( /\ r.op = "listThreads" /\ r.pc # "done" /\ q.pc = "done"
            /\ Role(r.user) \in {"Student", "Counselor"} )
          => /\ q.status = 200
             /\ {x.tid : x \in q.list} = {f.tid : f \in r.found}
             /\ Cardinality(q.list) = Cardinality(r.found)
             /\ \A x \in q.list : \E f \in r.found :
                  /\ f.tid = x.tid
                  /\ x.item.counselorId = f.doc.counselorId
                  /\ x.item.anonymous = f.doc.anonymous
                  /\ x.item.studentId =
                       (IF Role(r.user) = "Counselor"
                        THEN VisibleStudent(f.doc, r.user)
                        ELSE f.doc.studentId)
             /\ threads' = threads]_vars

\* a counselor's listThreads has returned a closed thread and an open one,
\* both of a student and both with studentId masked
C37_Witness ==
  \E p \in Procs :
    LET r == procs[p] IN
    /\ r.op = "listThreads" /\ r.pc = "done" /\ r.status = 200
    /\ Role(r.user) = "Counselor"
    /\ \E x, y \in r.list, f, g \in r.found :
         /\ f.tid = x.tid /\ g.tid = y.tid
         /\ f.doc.status = "closed" /\ g.doc.status = "open"
         /\ f.doc.studentId # NULL /\ x.item.studentId = NULL
         /\ y.item.studentId = NULL

(* ------------------ specification: callers who are not the owner ------- *)
\* student s2 sends to and marks the thread of student s1 while s1 uses and
\* closes it
OwnerCallers == Students \cup OtherStudents

OwnerBodies ==
  [text : Texts, clientId : {NULL}, anonymous : {NULL}, senderMode : SenderModes]

SendRequestOwner(p) ==
  /\ AcceptMore(p)
  /\ \E u \in OwnerCallers, t \in TargetIds, b \in OwnerBodies : SendLoad(p, u, t, b)

MarkRequestOwner(p) ==
  /\ AcceptMore(p)
  /\ \E u \in OwnerCallers, t \in TargetIds : MarkLoad(p, u, t)

CloseRequestOwner(p) ==
  /\ AcceptMore(p)
  /\ \E t \in TargetIds : CloseLoad(p, "s1", t)

NextOwner ==
  \/ \E p \in Procs : SendRequestOwner(p)
  \/ \E p \in Procs : SendLock(p)
  \/ \E p \in Procs : SendCreate(p)
  \/ \E p \in Procs : SendSummary(p)
  \/ \E p \in Procs : MarkRequestOwner(p)
  \/ \E p \in Procs : MarkWrite(p)
  \/ \E p \in Procs : CloseRequestOwner(p)
  \/ \E p \in Procs : CloseWrite(p)

SpecOwner == InitClose /\ [][NextOwner]_vars

\* the request that slot p starts in this step is a sendMessage or a
\* markRead of a student on an existing thread of somebody else
StartsForeign(p) ==
  LET q == procs'[p] IN
  /\ Free(p) /\ q # procs[p]
  /\ q.op \in {"sendMessage", "markRead"}
  /\ Role(q.user) = "Student"
  /\ q.tid \in ThreadIds
  /\ threads[q.tid].studentId # q.user

\* C38: a student's sendMessage or markRead on a thread whose studentId
\* is not the caller ends at once with 403 and writes nothing: the
\* identity fields, the counters and the messages are as before, whether
\* the thread is locked or not
C38_ForeignStudentForbidden ==
  [][\A p \in Procs :
       StartsForeign(p)
       => /\ procs'[p].pc = "done" /\ procs'[p].status = 403
          /\ threads' = threads /\ messages' = messages]_vars

(* ------------------------ counselorThreadEntries ------------------------ *)
\* the Journal collection: one document per user and day, submitted or
\* still a draft; the handlers modelled here never write it
Journal ==
  { [user |-> "s1", dateKey |-> 1, daySubmitted |-> TRUE],
    [user |-> "s1", dateKey |-> 2, daySubmitted |-> FALSE],
    [user |-> "s2", dateKey |-> 1, daySubmitted |-> TRUE] }

\* .select("studentId counselorId anonymous identityMode status").lean()
SelectJournal(t) ==
  [studentId |-> t.studentId, counselorId |-> t.counselorId,
   anonymous |-> t.anonymous, identityMode |-> t.identityMode, status |-> t.status]

\* the assignment test of the journal read with unclaimed threads let through
NotAssignedToOther(thread, viewer) ==
  thread.counselorId # NULL /\ thread.counselorId # viewer

\* journal.controller.js lines 244-249: the thread is not claimed by the caller
NotAssigned(thread, viewer) ==
  LET assignedId == IF thread.counselorId # NULL THEN thread.counselorId ELSE ""
  IN assignedId = "" \/ assignedId # viewer

\* lines 251-256: anonymous flag or anonymous identity mode
isAnon(thread) == thread.anonymous \/ thread.identityMode = "anonymous"

\* lines 219-256: role gate, id check, findById, assignment and anonymity
JournalLoad(p, viewer, tid) ==
  LET r0 == [Idle EXCEPT !.op = "counselorThreadEntries", !.user = viewer, !.tid = tid] IN
  /\ nreq' = nreq + 1
  /\ UNCHANGED << threads, messages, rt >>
  /\ procs' = [procs EXCEPT ![p] =
       IF roleLower(viewer) \notin {"counselor", "admin"} THEN Finish(r0, 403)
       ELSE IF tid = InvalidId THEN Finish(r0, 400)
       ELSE IF ~Exists(tid) THEN Finish(r0, 404)
       ELSE LET thread == SelectJournal(threads[tid])
                r1 == [r0 EXCEPT !.thread = thread]
            IN IF NotAssigned(thread, viewer) THEN Finish(r1, 403)
               ELSE IF isAnon(thread) THEN Finish(r1, 403)
               ELSE [r1 EXCEPT !.pc = "journal_find"] ]

\* lines 258-274: Journal.find({ user: thread.studentId, daySubmitted: true })
\* and the response (the date range and the limit are not represented)
JournalFind(p) ==
  LET r == procs[p]
      entries == {j \in Journal : j.user = r.thread.studentId /\ j.daySubmitted}
  IN
  /\ r.pc = "journal_find"
  /\ procs' = [procs EXCEPT ![p] = [Finish(r, 200) EXCEPT !.entries = entries]]
  /\ UNCHANGED << threads, messages, nreq, rt >>

(* ---------------- specification: journal of a thread's student ---------- *)
\* counselors claim the thread, its student switches the identity mode,
\* and counselors, an admin and the student ask for the journal entries
JournalCallers == Counselors \cup Admins \cup Students

EnsureRequestJournal(p) ==
  /\ Accept(p)
  /\ \E a \in AnonymousInputs : EnsureFind(p, "s1", a)

SendRequestJournal(p) ==
  /\ Accept(p)
  /\ \E u \in Counselors, t \in TargetIds, b \in RealtimeBodies : SendLoad(p, u, t, b)

JournalRequest(p) ==
  /\ Accept(p)
  /\ \E u \in JournalCallers, t \in ReadTargets : JournalLoad(p, u, t)

\* one open thread of s1, created anonymous or not
InitJournal ==
  /\ threads \in {<< NewThread("s1", FALSE) >>, << NewThread("s1", TRUE) >>}
  /\ messages = <<>>
  /\ procs = [p \in Procs |-> Idle]
  /\ nreq = 0
  /\ ioInstance = initSocket(NoServer)
  /\ socks = [u \in SocketUsers |-> NoSocket]

NextJournal ==
  \/ \E p \in Procs : EnsureRequestJournal(p)
  \/ \E p \in Procs : EnsureUpdate(p)
  \/ \E p \in Procs : SendRequestJournal(p)
  \/ \E p \in Procs : SendClaim(p)
  \/ \E p \in Procs : SendJoin(p)
  \/ \E p \in Procs : SendCreate(p)
  \/ \E p \in Procs : SendSummary(p)
  \/ \E p \in Procs : JournalRequest(p)
  \/ \E p \in Procs : JournalFind(p)

SpecJournal == InitJournal /\ [][NextJournal]_vars

\* the request that slot p starts in this step is a counselorThreadEntries
StartsJournal(p) ==
  Free(p) /\ procs'[p] # procs[p] /\ procs'[p].op = "counselorThreadEntries"

\* C39: counselorThreadEntries goes on to read the journal only when the
\* thread's counselorId is the caller and the thread has anonymous = false
\* and an identityMode other than anonymous; for an unclaimed thread, a
\* thread claimed by another counselor or an anonymous thread it ends with
\* 403; a call that ends with an error returns no entries, and a call that
\* succeeds returns the submitted entries of the student of the thread it
\* read, which was assigned to the caller and not anonymous
C39_JournalOnlyForAssigned ==
  [][\A p \in Procs :
       LET r == procs[p]
           q == procs'[p]
       IN
       /\ (StartsJournal(p) /\ q.tid \in ThreadIds)
          => LET t == threads[q.tid] IN
             IF /\ t.counselorId = q.user
                /\ ~t.anonymous /\ t.identityMode # "anonymous"
             THEN q.pc = "journal_find" /\ q.entries = {}
             ELSE q.pc = "done" /\ q.status = 403 /\ q.entries = {}
       /\ (StartsJournal(p) /\ q.tid \notin ThreadIds)
          => q.pc = "done" /\ q.status \in {403, 404} /\ q.entries = {}
       /\ (r.op = "counselorThreadEntries" /\ r.pc # "done" /\ q.pc = "done")
          => /\ q.status = 200
             /\ r.thread.counselorId = r.user
             /\ ~r.thread.anonymous /\ r.thread.identityMode # "anonymous"
             /\ q.entries = {j \in Journal : j.user = r.thread.studentId /\ j.daySubmitted}
             /\ \A j \in q.entries : j.user = threads[r.tid].studentId
       /\ (q # r /\ q.op = "counselorThreadEntries")
          => threads' = threads /\ messages' = messages]_vars

\* the assigned counselor of a thread that is not anonymous has received
\* the submitted journal entries of the thread's student
C39_Witness ==
  \E p \in Procs :
    LET r == procs[p] IN
    /\ r.op = "counselorThreadEntries" /\ r.pc = "done" /\ r.status = 200
    /\ r.thread.counselorId = r.user /\ ~r.thread.anonymous
    /\ r.entries # {}
    /\ \A j \in r.entries : j.user = r.thread.studentId /\ j.daySubmitted

(* ------------- specification: the realtime registry ------------------- *)
\* a call of initSocket(httpServer): the registry takes the value the call
\* leaves in ioInstance, and the call returns it
InitSocketCall(p) ==
  /\ Free(p) /\ nreq <= MaxRequests
  /\ nreq' = nreq + 1
  /\ ioInstance' = initSocket(ioInstance)
  /\ procs' = [procs EXCEPT ![p] =
       [Idle EXCEPT !.pc = "done", !.op = "initSocket",
                    !.io = initSocket(ioInstance)]]
  /\ UNCHANGED << threads, messages, socks >>

\* a call of getIO(): the instance, or the throw, with nothing written
GetIOCall(p) ==
  /\ Free(p) /\ nreq <= MaxRequests
  /\ nreq' = nreq + 1
  /\ procs' = [procs EXCEPT ![p] =
       [Idle EXCEPT !.pc = "done", !.op = "getIO",
                    !.io = getIO(ioInstance).io,
                    !.threw = getIO(ioInstance).threw]]
  /\ UNCHANGED << threads, messages, ioInstance, socks >>

InitRegistry ==
  /\ threads = << NewThread("s1", FALSE) >>
  /\ messages = <<>>
  /\ procs = [p \in Procs |-> Idle]
  /\ nreq = 0
  /\ ioInstance = NoServer
  /\ socks = [u \in SocketUsers |-> NoSocket]

\* calls of initSocket and getIO in any order, and the connections the
\* server accepts once it exists
NextRegistry ==
  \/ \E p \in Procs : InitSocketCall(p)
  \/ \E p \in Procs : GetIOCall(p)
  \/ ConnectSocket
  \/ AutoJoinSocket
  \/ DisconnectSocket

SpecRegistry == InitRegistry /\ [][NextRegistry]_vars

\* the call of a registry function that a step makes in slot p
CallsRegistry(p, name) ==
  /\ procs'[p] # procs[p]
  /\ procs'[p].op = name

\* C40: getIO throws while no initSocket call has been made; the first
\* initSocket call creates one server, registers the middleware and the
\* connection handler on it once and returns it; every later initSocket
\* call returns that server and leaves it and its handlers as they were;
\* getIO after initialisation returns that server and changes nothing
C40_RegistryInitialisedOnce ==
  [][\A p \in Procs :
       LET q == procs'[p] IN
       /\ (CallsRegistry(p, "getIO") /\ ioInstance = NoServer)
          => q.threw /\ ioInstance' = NoServer
       /\ (CallsRegistry(p, "getIO") /\ ioInstance # NoServer)
          => ~q.threw /\ q.io = ioInstance /\ ioInstance' = ioInstance
       /\ (CallsRegistry(p, "initSocket") /\ ioInstance = NoServer)
          => /\ ioInstance' # NoServer
             /\ ioInstance'.id = 1
             /\ ioInstance'.use = 1 /\ ioInstance'.connection = 1
             /\ q.io = ioInstance'
       /\ (CallsRegistry(p, "initSocket") /\ ioInstance # NoServer)
          => q.io = ioInstance /\ ioInstance' = ioInstance
       /\ ioInstance # NoServer => ioInstance' = ioInstance]_vars

\* two initSocket calls have returned the one server, which carries one
\* middleware and one connection handler, and a user is connected to it
C40_Witness ==
  /\ ioInstance # NoServer
  /\ ioInstance.id = 1 /\ ioInstance.use = 1 /\ ioInstance.connection = 1
  /\ \E p, q \in Procs :
       /\ p # q
       /\ procs[p].op = "initSocket" /\ procs[p].io = ioInstance
       /\ procs[q].op = "initSocket" /\ procs[q].io = ioInstance
  /\ \E u \in SocketUsers : socks[u].conn

====
